---------------------------- MODULE Spec2Model ----------------------------
(***************************************************************************)
(* Port scan-and-snapshot engine of networksecuritybackend.                 *)
(*                                                                         *)
(*   SpecProbe   shared_utils/scanning.py: scan_ports (primary probe, then  *)
(*               one fallback probe) and get_open_ports_from_scan.          *)
(*   SpecWriter  ports_service/save_open_ports_to_db.py: concurrent calls   *)
(*               of save_open_ports_to_db and save_multiple_hosts_ports,    *)
(*               each on its own connection, against a READ COMMITTED store.*)
(*   Spec        ports_service/multithreaded_scanner.py: the thread-pool    *)
(*               run scan_all_ips_multithreaded.                            *)
(*   SpecShared  save_multiple_hosts_ports called repeatedly on one         *)
(*               connection of the caller.                                  *)
(*   SpecInterrupt  the thread-pool run with a KeyboardInterrupt.           *)
(*   SpecRescan  the thread-pool run over the rows of an earlier run.       *)
(*   SpecConn    the thread-pool run with the connections of its saves.     *)
(*   SpecProbeLive  scan_ports with its timeouts, under weak fairness.      *)
(*   SpecSchema  save_open_ports_to_db with the steps of                    *)
(*               create_ip_open_ports_table, from a database without the    *)
(*               table.                                                     *)
(*   SpecPaging  the batched insert of the save functions and the value     *)
(*               they return, by number of records.                         *)
(*   SpecSerial  calls of save_open_ports_to_db one after the other.        *)
(*   SpecSeq     ports_service/main.py: the sequential run                  *)
(*               scan_all_ips_from_db on one connection, and                *)
(*               port_scanner.py's scan_single_ip_threaded.                 *)
(***************************************************************************)
EXTENDS Integers, Sequences, FiniteSets, TLC

VARIABLES
    \* ---- scan_ports (one call) ----
    ppc,            \* position in scan_ports: start, fallback, returned, extracted
    ip_address,     \* the address being probed
    primary_out,    \* what nm.scan_command did (NoneVal before the call)
    fallback_out,   \* what nm.scan_top_ports did (NoneVal before the call)
    primaryCalls,   \* number of nm.scan_command invocations
    fallbackCalls,  \* number of nm.scan_top_ports invocations
    scan_result,    \* the dict scan_ports returned
    open_ports,     \* the list get_open_ports_from_scan returned
    \* ---- the store and the save functions (one call per writer at a time) ----
    store,          \* committed rows of ip_open_ports
    now,            \* the clock datetime.now() reads
    calls,          \* calls of the save functions started so far
    wpc,            \* wpc[w]: position of writer w in its call
    call,           \* call[w]: the function called and its arguments
    scan_timestamp, \* scan_timestamp[w]
    snap,           \* snap[w]: the rows the DELETE statement of w found
    deleted,        \* deleted[w]: rows deleted by w's transaction
    deleted_count,  \* deleted_count[w]: cur.rowcount of the DELETE
    inserted,       \* inserted[w]: rows inserted by w's transaction
    ret,            \* ret[w]: the value the call returned
    alone,          \* alone[w]: no other call has been active since w's call began
    host_i,         \* host_i[w]: position of a batch call in its DELETE loop
    table_exists,   \* ip_open_ports is in the committed catalog
    constraint_exists, \* ip_open_ports_unique is in the committed catalog
    provision,      \* provision[w]: how create_ip_open_ports_table goes for w
    \* ---- execute_values (one call, the records counted) ----
    xpc,            \* position in the batched insert: idle, execute, returned
    argslist,       \* records execute_values has not sent yet
    rowcount,       \* cur.rowcount (-1: no statement executed)
    persisted,      \* rows the INSERT statements have inserted
    rows_affected,  \* the value the save function returns
    \* ---- scan_all_ips_multithreaded (one run) ----
    phase,          \* position of the coordinator in the run
    max_workers,    \* the max_workers argument
    limit,          \* the limit argument (NoLimit: None)
    ip_data_list,   \* the targets, as retrieved and then as truncated
    queue,          \* the executor's work queue: submitted tasks no worker has taken
    stage,          \* stage[i]: position of task i in scan_single_ip_threaded
    thread,         \* thread[i]: the worker thread task i was given to (0: none)
    dispatches,     \* dispatches[i]: times task i was handed to a worker
    task_ports,     \* task_ports[i]: open_ports of task i after the scan
    result,         \* result[i]: the dict the future of task i holds
    yielded,        \* futures as_completed has handed to the coordinator
    completed_scans,
    failed_scans,
    total_ports_saved,
    retrieved,      \* len(ip_data_list) as get_all_ip_addresses returned it
    lookup,         \* how get_all_ip_addresses ended: "none", "ok", "failed"
    summary,        \* the counts the run printed at its end
    thread_local,   \* thread_local[t]: the nmap attribute of worker thread t
    handles_created,\* handles_created[t]: nmap3.Nmap() objects thread t made
    nm,             \* nm[i]: the handle get_nmap() gave the scan of task i
    db_conn,        \* db_conn[i]: the connection save_open_ports_to_db opened for task i
    \* ---- ports_service/main.py: scan_all_ips_from_db (one run) ----
    spc,            \* position of the sequential run
    seq_limit,      \* the limit argument (NoLimit: None)
    seq_list,       \* ip_data_list
    seq_i,          \* targets the for loop has handled
    seq_probe,      \* seq_probe[k]: what nmap.scan_top_ports did for target k
    seq_results,    \* seq_results[k]: the dict scan_and_save_single_ip returned
    total_scanned,
    seq_ports_saved,\* total_ports_saved of scan_all_ips_from_db
    seq_summary,    \* the final summary, once printed
    conn_state,     \* conn_state[c]: connection c is "none", "open", "broken" or "closed"
    ps_probe,       \* port_scanner.py: what nmap.scan_top_ports did
    ps_result       \* port_scanner.py: the dict scan_single_ip_threaded returned

probeVars == <<ppc, ip_address, primary_out, fallback_out, primaryCalls,
               fallbackCalls, scan_result, open_ports>>

schemaVars == <<table_exists, constraint_exists, provision>>

pageVars == <<xpc, argslist, rowcount, persisted, rows_affected>>

writerVars == <<store, now, calls, wpc, call, scan_timestamp, snap, deleted,
                deleted_count, inserted, ret, alone, host_i, schemaVars,
                pageVars>>

reportVars == <<retrieved, lookup, summary>>

handleVars == <<thread_local, handles_created, nm, db_conn>>

seqVars == <<spc, seq_limit, seq_list, seq_i, seq_probe, seq_results,
             total_scanned, seq_ports_saved, seq_summary, conn_state, ps_probe,
             ps_result>>

poolVars == <<phase, max_workers, limit, ip_data_list, queue, stage, thread,
              dispatches, task_ports, result, yielded, completed_scans,
              failed_scans, total_ports_saved, reportVars, handleVars>>

vars == <<probeVars, writerVars, poolVars, seqVars>>

-----------------------------------------------------------------------------
(* Bounds *)

MaxEntries == 2      \* port entries in one probe report
MaxTargets == 2      \* targets the host lookup returns
MaxWorkers == 2      \* largest max_workers
MaxCalls == 3        \* calls of the save functions in one behaviour
MaxClock == 2        \* last clock value; it alone lies on the second calendar day
MaxRows == 250       \* records of one batched insert

-----------------------------------------------------------------------------
(* Python values *)

NoneVal == [kind |-> "none"]
IntVal(n) == [kind |-> "int", n |-> n]
StrVal(s) == [kind |-> "str", s |-> s]

\* The decimal strings of the model and the integers int() gives for them.
IntOfStr == [s \in {"22", "80", "70000"} |->
               CASE s = "22" -> 22 [] s = "80" -> 80 [] OTHER -> 70000]

\* int(v) returns (TRUE) or raises ValueError/TypeError (FALSE).
CanInt(v) ==
    \/ v.kind = "int"
    \/ v.kind = "str" /\ v.s \in DOMAIN IntOfStr

\* int(v), where it returns.
PyInt(v) == IF v.kind = "int" THEN v.n ELSE IntOfStr[v.s]

Addrs == {"10.0.0.1", "10.0.0.2"}

SeqsUpTo(S, n) == UNION {[1..k -> S] : k \in 0..n}

-----------------------------------------------------------------------------
(* Probe reports *)

\* The portid attribute of a <port> element / port_info dict: a string, or absent.
PortIds == {StrVal("22"), StrVal("80"), StrVal("70000"), StrVal("http"), NoneVal}

PortStates == {"open", "closed"}

\* One <port> element of the XML report, or one port_info dict of the JSON one.
Entries == [portid : PortIds, state : PortStates, protocol : {"tcp"},
            service : {"unknown"}]

Reports == SeqsUpTo(Entries, MaxEntries)

\* nm.scan_command: an XML element, None, or an exception.
PrimaryOutcomes ==
    [kind : {"xml"}, ports : Reports]
        \cup {[kind |-> "noresult"]}
        \cup [kind : {"raise"}, cause : {"timeout", "nmap error"}]

\* nm.scan_top_ports: a dict (with or without an entry for the address, whose
\* host data has or lacks 'ports'), or an exception.
FallbackOutcomes ==
    [kind : {"dict"}, has_addr : {TRUE}, has_ports : {TRUE}, ports : Reports]
        \cup [kind : {"dict"}, has_addr : {TRUE}, has_ports : {FALSE}, ports : {<<>>}]
        \cup [kind : {"dict"}, has_addr : {FALSE}, has_ports : {FALSE}, ports : {<<>>}]
        \cup [kind : {"raise"}, cause : {"timeout"}]

-----------------------------------------------------------------------------
(* shared_utils/scanning.py *)

\* The XML loop: an open entry whose portid int() rejects raises inside the
\* try, which ends the loop; what was appended before it is returned.
RECURSIVE XmlLoop(_, _)
XmlLoop(entries, acc) ==
    IF entries = <<>> THEN acc
    ELSE LET e == Head(entries) IN
         IF e.state = "open"
         THEN IF CanInt(e.portid)
              THEN XmlLoop(Tail(entries),
                           Append(acc, [port |-> IntVal(PyInt(e.portid)),
                                        protocol |-> e.protocol,
                                        service |-> e.service]))
              ELSE acc
         ELSE XmlLoop(Tail(entries), acc)

get_open_ports_from_xml(xml_element) == XmlLoop(xml_element.ports, <<>>)

\* port_info.get('portid', 0)
JsonPortId(e) == IF e.portid = NoneVal THEN IntVal(0) ELSE e.portid

RECURSIVE JsonLoop(_, _)
JsonLoop(entries, acc) ==
    IF entries = <<>> THEN acc
    ELSE LET e == Head(entries) IN
         IF e.state = "open"
         THEN IF CanInt(JsonPortId(e))
              THEN JsonLoop(Tail(entries),
                            Append(acc, [port |-> IntVal(PyInt(JsonPortId(e))),
                                         protocol |-> e.protocol,
                                         service |-> e.service]))
              ELSE acc
         ELSE JsonLoop(Tail(entries), acc)

get_open_ports_from_json(json_data) ==
    IF json_data.has_addr /\ json_data.has_ports
    THEN JsonLoop(json_data.ports, <<>>)
    ELSE <<>>

get_open_ports_from_scan(res) ==
    IF ~res.success THEN <<>>
    ELSE IF res.xml_data # NoneVal THEN get_open_ports_from_xml(res.xml_data)
    ELSE IF res.json_data # NoneVal THEN get_open_ports_from_json(res.json_data)
    ELSE <<>>

\* The primary try block ran to its return.
PrimaryOk(out) == out.kind = "xml"

\* str(e) of the exception the primary try block ended with.
PrimaryCause(out) ==
    IF out.kind = "noresult" THEN "No scan result returned from nmap" ELSE out.cause

\* The fallback try block ran to its return.
FallbackOk(out) == out.kind = "dict" /\ out.has_addr /\ out.has_ports

\* str(fallback_error)
FallbackCause(out) ==
    IF out.kind = "dict" THEN "No data returned from fallback scan" ELSE out.cause

\* A both-failed message that loses the primary cause.
ErrorMsgFallbackOnly(ip, e, fallback_error) ==
    [address |-> ip, primary |-> fallback_error, fallback |-> fallback_error]

\* f"Error scanning {ip}: Primary failed ({e}), Fallback failed ({fallback_error})"
ErrorMsg(ip, e, fallback_error) ==
    [address |-> ip, primary |-> e, fallback |-> fallback_error]

PrimaryResult(ip, out) ==
    [success |-> TRUE, ip_address |-> ip, xml_data |-> out,
     json_data |-> NoneVal, error |-> NoneVal]

FallbackResult(ip, pout, fout) ==
    IF FallbackOk(fout)
    THEN [success |-> TRUE, ip_address |-> ip, xml_data |-> NoneVal,
          json_data |-> fout, error |-> NoneVal]
    ELSE [success |-> FALSE, ip_address |-> ip, xml_data |-> NoneVal,
          json_data |-> NoneVal,
          error |-> ErrorMsg(ip, PrimaryCause(pout), FallbackCause(fout))]

\* scan_ports as a function of what the two probes do.
scan_ports(ip, pout, fout) ==
    IF PrimaryOk(pout) THEN PrimaryResult(ip, pout) ELSE FallbackResult(ip, pout, fout)

NoResult == [success |-> FALSE, ip_address |-> "", xml_data |-> NoneVal,
             json_data |-> NoneVal, error |-> NoneVal]

ProbeInit ==
    /\ ppc = "start"
    /\ ip_address \in Addrs
    /\ primary_out = NoneVal
    /\ fallback_out = NoneVal
    /\ primaryCalls = 0
    /\ fallbackCalls = 0
    /\ scan_result = NoResult
    /\ open_ports = <<>>

\* lines 33-52: the primary probe, and the return when it gave a report.
ScanPortsPrimary ==
    /\ ppc = "start"
    /\ \E out \in PrimaryOutcomes :
          /\ primary_out' = out
          /\ primaryCalls' = primaryCalls + 1
          /\ IF PrimaryOk(out)
             THEN /\ scan_result' = PrimaryResult(ip_address, out)
                  /\ ppc' = "returned"
             ELSE /\ scan_result' = scan_result
                  /\ ppc' = "fallback"
    /\ UNCHANGED <<ip_address, fallback_out, fallbackCalls, open_ports>>
    /\ UNCHANGED <<writerVars, poolVars, seqVars>>

\* lines 54-88: the fallback probe, entered from the except clause only.
ScanPortsFallback ==
    /\ ppc = "fallback"
    /\ \E out \in FallbackOutcomes :
          /\ fallback_out' = out
          /\ fallbackCalls' = fallbackCalls + 1
          /\ scan_result' = FallbackResult(ip_address, primary_out, out)
          /\ ppc' = "returned"
    /\ UNCHANGED <<ip_address, primary_out, primaryCalls, open_ports>>
    /\ UNCHANGED <<writerVars, poolVars, seqVars>>

\* get_open_ports_from_scan on what scan_ports returned.
GetOpenPorts ==
    /\ ppc = "returned"
    /\ open_ports' = get_open_ports_from_scan(scan_result)
    /\ ppc' = "extracted"
    /\ UNCHANGED <<ip_address, primary_out, fallback_out, primaryCalls,
                   fallbackCalls, scan_result>>
    /\ UNCHANGED <<writerVars, poolVars, seqVars>>

ProbeNext == ScanPortsPrimary \/ ScanPortsFallback \/ GetOpenPorts

\* lines 37-42: the arguments of nm.scan_command end with --host-timeout, so
\* nmap gives the host up after that time and the call returns.
PrimaryBounded == TRUE

\* line 63: nm.scan_top_ports(ip_address, default=100) is given no timeout, in
\* its arguments or for the nmap process.
FallbackBounded == FALSE

\* line 63: a probe call without a timeout whose nmap process does not end;
\* the worker thread stays in the call.
FallbackHangs ==
    /\ ppc = "fallback"
    /\ ~FallbackBounded
    /\ ppc' = "hung"
    /\ fallbackCalls' = fallbackCalls + 1
    /\ UNCHANGED <<ip_address, primary_out, fallback_out, primaryCalls,
                   scan_result, open_ports>>
    /\ UNCHANGED <<writerVars, poolVars, seqVars>>

\* scan_ports with probes that take as long as their timeouts let them.
ProbeLiveNext == ProbeNext \/ FallbackHangs

-----------------------------------------------------------------------------
(* ports_service/save_open_ports_to_db.py *)

Writers == {1, 2}

Keys == {"A", "B"}

\* (address, identity) pairs a call can be made for.
Pairs == {[ip_address |-> "10.0.0.1", identity_key |-> "A"],
          [ip_address |-> "10.0.0.1", identity_key |-> "B"]}

\* One element of open_ports, as scanning.py builds it.
Obs(n) == [port |-> IntVal(n), protocol |-> "tcp", service |-> "unknown"]

\* The lists a call is made with: none, one port, two ports.
ObsLists == {<<>>, <<Obs(22)>>, <<Obs(22), Obs(80)>>}

\* timestamp::date: the clock values below MaxClock are one calendar day,
\* MaxClock is the next.
Day(t) == t \div MaxClock

\* The columns of UNIQUE (ip_address, port, protocol, timestamp).
UniqueKey(r) == <<r.ip_address, r.port, r.protocol, r.timestamp>>

\* A cleanup that finds nothing (clean_old off).
SameDayRowsNone(rows, ip, id, ts) == {}

\* A cleanup scoped to the address alone.
SameDayRowsAnyIdentity(rows, ip, id, ts) ==
    {r \in rows : r.ip_address = ip /\ Day(r.timestamp) = Day(ts)}

\* A DELETE without the date condition.
SameDayRowsAnyDay(rows, ip, id, ts) ==
    {r \in rows : r.ip_address = ip /\ r.identity_key = id}

\* WHERE ip_address = %s AND identity_key = %s AND timestamp::date = %s::date
SameDayRows(rows, ip, id, ts) ==
    {r \in rows : /\ r.ip_address = ip
                  /\ r.identity_key = id
                  /\ Day(r.timestamp) = Day(ts)}

\* lines 133-142: the tuple built for one port.
Record(port, id, ip, ts) ==
    [ip_address |-> ip, identity_key |-> id, protocol |-> port.protocol,
     port |-> PyInt(port.port), service |-> port.service, timestamp |-> ts]

\* lines 133-142: records, for a list whose ports int() accepts.
Records(ports, id, ip, ts) == [i \in 1..Len(ports) |-> Record(ports[i], id, ip, ts)]

\* int(port['port']) raises for some port of the list.
RecordsRaise(ports) == \E i \in 1..Len(ports) : ~CanInt(ports[i].port)

Range(f) == {f[i] : i \in DOMAIN f}

\* The transaction of writer w is open: it holds uncommitted work.
InTxn(w) == wpc[w] \in {"deleting", "next", "inserting", "commit"}

\* The batch INSERT of recs violates the unique constraint: two records of the
\* batch share a key, or a row the transaction sees has the key of one.
UniqueViolation(visible, recs) ==
    \/ \E i, j \in 1..Len(recs) : i # j /\ UniqueKey(recs[i]) = UniqueKey(recs[j])
    \/ \E r \in visible :
          \E i \in 1..Len(recs) : UniqueKey(r) = UniqueKey(recs[i])

\* The INSERT of recs by w waits: another open transaction has inserted, or
\* deleted, a row with one of the keys.
InsertWaits(w, recs) ==
    \E w2 \in Writers \ {w} :
        /\ InTxn(w2)
        /\ \E r \in inserted[w2] \cup deleted[w2] :
              \E i \in 1..Len(recs) : UniqueKey(r) = UniqueKey(recs[i])

\* A DELETE of rows by w waits: another open transaction has deleted one of them.
DeleteWaits(w, rows) ==
    \E w2 \in Writers \ {w} : InTxn(w2) /\ deleted[w2] \cap rows # {}

\* The call of the writer is at its return statement: after its commit or
\* with nothing to save ("done"), or after its rollback ("failed").
Ended == {"done", "failed"}

\* One element of hosts_ports_data.
HostData(p, ports) ==
    [ip_address |-> p.ip_address, identity_key |-> p.identity_key,
     open_ports |-> ports]

\* The lists save_multiple_hosts_ports is called with: a host with a port and
\* a host with none, a single host with none, and two hosts that share the
\* address and an open port.
HostLists ==
    {<<HostData([ip_address |-> "10.0.0.1", identity_key |-> "A"], <<Obs(22)>>),
       HostData([ip_address |-> "10.0.0.1", identity_key |-> "B"], <<>>)>>,
     <<HostData([ip_address |-> "10.0.0.1", identity_key |-> "A"], <<>>)>>,
     <<HostData([ip_address |-> "10.0.0.1", identity_key |-> "A"], <<Obs(22)>>),
       HostData([ip_address |-> "10.0.0.1", identity_key |-> "B"], <<Obs(22)>>)>>}

\* lines 206-220: all_records, for a list whose ports int() accepts.
RECURSIVE AllRecords(_, _)
AllRecords(hosts, ts) ==
    IF hosts = <<>> THEN <<>>
    ELSE Records(Head(hosts).open_ports, Head(hosts).identity_key,
                 Head(hosts).ip_address, ts) \o AllRecords(Tail(hosts), ts)

\* The arguments of a call: of save_open_ports_to_db (fn "single") or of
\* save_multiple_hosts_ports (fn "batch").
NoCall == [fn |-> "none", open_ports |-> <<>>, identity_key |-> "",
           ip_address |-> "", hosts_ports_data |-> <<>>, conn |-> "none"]

WriterInit ==
    /\ store = {}
    /\ now = 0
    /\ calls = 0
    /\ wpc = [w \in Writers |-> "idle"]
    /\ call = [w \in Writers |-> NoCall]
    /\ scan_timestamp = [w \in Writers |-> 0]
    /\ snap = [w \in Writers |-> {}]
    /\ deleted = [w \in Writers |-> {}]
    /\ deleted_count = [w \in Writers |-> 0]
    /\ inserted = [w \in Writers |-> {}]
    /\ ret = [w \in Writers |-> 0]
    /\ alone = [w \in Writers |-> TRUE]
    /\ host_i = [w \in Writers |-> 0]
    /\ table_exists = FALSE
    /\ constraint_exists = FALSE
    /\ provision = [w \in Writers |-> "none"]

\* lines 100-108: the call opens its own connection and ensures the table.
\* Writers are interchangeable: a call takes the first free one.
SaveBegin(w) ==
    /\ wpc[w] = "idle"
    /\ \A w2 \in Writers : w2 < w => wpc[w2] # "idle"
    /\ calls < MaxCalls
    /\ calls' = calls + 1
    /\ \E p \in Pairs, ports \in ObsLists :
          call' = [call EXCEPT ![w] = [fn |-> "single",
                                       open_ports |-> ports,
                                       identity_key |-> p.identity_key,
                                       ip_address |-> p.ip_address,
                                       hosts_ports_data |-> <<>>,
                                       conn |-> "none"]]
    /\ wpc' = [wpc EXCEPT ![w] = "entered"]
    /\ snap' = [snap EXCEPT ![w] = {}]
    /\ deleted' = [deleted EXCEPT ![w] = {}]
    /\ deleted_count' = [deleted_count EXCEPT ![w] = 0]
    /\ inserted' = [inserted EXCEPT ![w] = {}]
    /\ ret' = [ret EXCEPT ![w] = 0]
    /\ alone' = [x \in Writers |->
                    IF x = w THEN \A y \in Writers \ {w} : wpc[y] = "idle"
                    ELSE alone[x] /\ wpc[x] = "idle"]
    /\ UNCHANGED <<store, now, scan_timestamp, host_i>>
    /\ UNCHANGED <<probeVars, poolVars, schemaVars, pageVars, seqVars>>

\* save_multiple_hosts_ports, lines 176-184: the call opens its own connection
\* and ensures the table.
BatchBegin(w) ==
    /\ wpc[w] = "idle"
    /\ \A w2 \in Writers : w2 < w => wpc[w2] # "idle"
    /\ calls < MaxCalls
    /\ calls' = calls + 1
    /\ \E hosts \in HostLists :
          call' = [call EXCEPT ![w] = [fn |-> "batch", open_ports |-> <<>>,
                                       identity_key |-> "", ip_address |-> "",
                                       hosts_ports_data |-> hosts,
                                       conn |-> "none"]]
    /\ wpc' = [wpc EXCEPT ![w] = "entered"]
    /\ snap' = [snap EXCEPT ![w] = {}]
    /\ deleted' = [deleted EXCEPT ![w] = {}]
    /\ deleted_count' = [deleted_count EXCEPT ![w] = 0]
    /\ inserted' = [inserted EXCEPT ![w] = {}]
    /\ ret' = [ret EXCEPT ![w] = 0]
    /\ alone' = [x \in Writers |->
                    IF x = w THEN \A y \in Writers \ {w} : wpc[y] = "idle"
                    ELSE alone[x] /\ wpc[x] = "idle"]
    /\ UNCHANGED <<store, now, scan_timestamp, host_i>>
    /\ UNCHANGED <<probeVars, poolVars, schemaVars, pageVars, seqVars>>

\* save_multiple_hosts_ports(hosts, conn=conn), lines 176-184, called on the
\* connection the caller keeps: create_ip_open_ports_table commits on it
\* (line 40), which applies whatever the connection's transaction holds.
BatchBeginConn(w) ==
    /\ wpc[w] = "idle"
    /\ calls < MaxCalls
    /\ calls' = calls + 1
    /\ \E hosts \in HostLists :
          call' = [call EXCEPT ![w] = [fn |-> "batch", open_ports |-> <<>>,
                                       identity_key |-> "", ip_address |-> "",
                                       hosts_ports_data |-> hosts,
                                       conn |-> "caller"]]
    /\ store' = store \ deleted[w]
    /\ wpc' = [wpc EXCEPT ![w] = "entered"]
    /\ snap' = [snap EXCEPT ![w] = {}]
    /\ deleted' = [deleted EXCEPT ![w] = {}]
    /\ deleted_count' = [deleted_count EXCEPT ![w] = 0]
    /\ inserted' = [inserted EXCEPT ![w] = {}]
    /\ ret' = [ret EXCEPT ![w] = 0]
    /\ alone' = [x \in Writers |->
                    IF x = w THEN \A y \in Writers \ {w} : wpc[y] = "idle"
                    ELSE alone[x] /\ wpc[x] = "idle"]
    /\ UNCHANGED <<now, scan_timestamp, host_i>>
    /\ UNCHANGED <<probeVars, poolVars, schemaVars, pageVars, seqVars>>

\* An empty call that still cleans the day's rows of the pair.
SaveEmptyCleans(w) ==
    /\ call[w].fn = "single"
    /\ wpc[w] = "entered"
    /\ Len(call[w].open_ports) = 0
    /\ store' = store \ {r \in store : /\ r.ip_address = call[w].ip_address
                                        /\ r.identity_key = call[w].identity_key
                                        /\ Day(r.timestamp) = Day(now)}
    /\ ret' = [ret EXCEPT ![w] = 0]
    /\ wpc' = [wpc EXCEPT ![w] = "done"]
    /\ UNCHANGED <<now, calls, call, scan_timestamp, snap, deleted,
                   deleted_count, inserted, alone, host_i>>
    /\ UNCHANGED <<probeVars, poolVars, schemaVars, pageVars, seqVars>>

\* lines 110-112, 157-159: nothing to save.
SaveEmpty(w) ==
    /\ call[w].fn = "single"
    /\ wpc[w] = "entered"
    /\ Len(call[w].open_ports) = 0
    /\ ret' = [ret EXCEPT ![w] = 0]
    /\ wpc' = [wpc EXCEPT ![w] = "done"]
    /\ UNCHANGED <<store, now, calls, call, scan_timestamp, snap, deleted,
                   deleted_count, inserted, alone, host_i>>
    /\ UNCHANGED <<probeVars, poolVars, schemaVars, pageVars, seqVars>>

\* A DELETE on an autocommit connection: it is committed as it ends.
DeleteRowsAutocommit(w, rows) ==
    /\ store' = store \ rows
    /\ deleted_count' = [deleted_count EXCEPT ![w] = Cardinality(rows \cap store)]
    /\ UNCHANGED deleted

\* The DELETE statement of w ends: the rows it found leave the view of w's
\* transaction, and the store when w commits; a row that a transaction it
\* waited for has removed is skipped. rowcount is the number of rows deleted.
DeleteRows(w, rows) ==
    /\ deleted' = [deleted EXCEPT ![w] = @ \cup (rows \cap store)]
    /\ deleted_count' = [deleted_count EXCEPT ![w] = Cardinality(rows \cap store)]
    /\ UNCHANGED store

\* lines 115-130: datetime.now() is read (time has passed, or not, since the
\* last reading) and the DELETE statement runs on the same-day rows of the
\* pair that are committed at that moment. It ends at once unless another
\* open transaction has deleted one of these rows: then it waits.
SaveDeleteStart(w) ==
    /\ call[w].fn = "single"
    /\ wpc[w] = "entered"
    /\ Len(call[w].open_ports) > 0
    /\ \E t \in now..MaxClock :
          LET rows == SameDayRows(store, call[w].ip_address,
                                  call[w].identity_key, t)
          IN  /\ now' = t
              /\ scan_timestamp' = [scan_timestamp EXCEPT ![w] = t]
              /\ IF DeleteWaits(w, rows)
                 THEN /\ snap' = [snap EXCEPT ![w] = rows]
                      /\ wpc' = [wpc EXCEPT ![w] = "deleting"]
                      /\ UNCHANGED <<store, deleted, deleted_count>>
                 ELSE /\ DeleteRows(w, rows)
                      /\ wpc' = [wpc EXCEPT ![w] = "inserting"]
                      /\ UNCHANGED snap
    /\ UNCHANGED <<calls, call, inserted, ret, alone, host_i>>
    /\ UNCHANGED <<probeVars, poolVars, schemaVars, pageVars, seqVars>>

\* lines 127-130: the DELETE statement ends after its wait for the
\* transactions that had deleted its rows.
SaveDelete(w) ==
    /\ call[w].fn = "single"
    /\ wpc[w] = "deleting"
    /\ ~DeleteWaits(w, snap[w])
    /\ DeleteRows(w, snap[w])
    /\ snap' = [snap EXCEPT ![w] = {}]
    /\ wpc' = [wpc EXCEPT ![w] = "inserting"]
    /\ UNCHANGED <<now, calls, call, scan_timestamp, inserted, ret, alone,
                   host_i>>
    /\ UNCHANGED <<probeVars, poolVars, schemaVars, pageVars, seqVars>>

\* lines 153-156 (and 235-238 of save_multiple_hosts_ports): the except clause
\* rolls the transaction back and the call returns 0.
Rollback(w) ==
    /\ deleted' = [deleted EXCEPT ![w] = {}]
    /\ inserted' = [inserted EXCEPT ![w] = {}]
    /\ ret' = [ret EXCEPT ![w] = 0]
    /\ wpc' = [wpc EXCEPT ![w] = "failed"]

\* lines 132-147, 153-156: the records are built and inserted in one batch;
\* when int() or the INSERT raises, the except clause rolls back.
SaveInsert(w) ==
    /\ call[w].fn = "single"
    /\ wpc[w] = "inserting"
    /\ IF RecordsRaise(call[w].open_ports)
       THEN Rollback(w)
       ELSE LET recs == Records(call[w].open_ports, call[w].identity_key,
                                call[w].ip_address, scan_timestamp[w]) IN
            /\ ~InsertWaits(w, recs)
            /\ \E db_error \in BOOLEAN :
                  IF db_error \/ UniqueViolation(store \ deleted[w], recs)
                  THEN Rollback(w)
                  ELSE /\ wpc' = [wpc EXCEPT ![w] = "commit"]
                       /\ inserted' = [inserted EXCEPT ![w] = Range(recs)]
                       /\ UNCHANGED <<deleted, ret>>
    /\ UNCHANGED <<store, now, calls, call, scan_timestamp, snap, deleted_count,
                   alone, host_i>>
    /\ UNCHANGED <<probeVars, poolVars, schemaVars, pageVars, seqVars>>

\* save_multiple_hosts_ports, lines 202-205: the DELETE loop goes to the next
\* host or, after the last, to the records.
BatchAdvance(w, i) ==
    IF i < Len(call[w].hosts_ports_data)
    THEN /\ host_i' = [host_i EXCEPT ![w] = i + 1]
         /\ wpc' = [wpc EXCEPT ![w] = "next"]
    ELSE /\ host_i' = [host_i EXCEPT ![w] = 0]
         /\ wpc' = [wpc EXCEPT ![w] = "inserting"]

\* save_multiple_hosts_ports, lines 186-203: datetime.now() is read once, when
\* the call enters its clean-up; the DELETE statement of the next host runs on
\* the same-day rows of that host's pair its transaction can see. It ends at
\* once unless another open transaction has deleted one of these rows.
BatchDeleteStart(w) ==
    /\ call[w].fn = "batch"
    /\ wpc[w] \in {"entered", "next"}
    /\ \E t \in IF wpc[w] = "entered" THEN now..MaxClock ELSE {scan_timestamp[w]} :
          LET i == IF wpc[w] = "entered" THEN 1 ELSE host_i[w]
              host_data == call[w].hosts_ports_data[i]
              rows == SameDayRows(store \ deleted[w], host_data.ip_address,
                                  host_data.identity_key, t)
          IN  /\ now' = IF wpc[w] = "entered" THEN t ELSE now
              /\ scan_timestamp' = [scan_timestamp EXCEPT ![w] = t]
              /\ IF DeleteWaits(w, rows)
                 THEN /\ snap' = [snap EXCEPT ![w] = rows]
                      /\ host_i' = [host_i EXCEPT ![w] = i]
                      /\ wpc' = [wpc EXCEPT ![w] = "deleting"]
                      /\ UNCHANGED <<store, deleted>>
                 ELSE /\ deleted' = [deleted EXCEPT ![w] = @ \cup rows]
                      /\ BatchAdvance(w, i)
                      /\ UNCHANGED <<store, snap>>
    /\ UNCHANGED <<calls, call, deleted_count, inserted, ret, alone>>
    /\ UNCHANGED <<probeVars, poolVars, schemaVars, pageVars, seqVars>>

\* save_multiple_hosts_ports, lines 199-203: the DELETE statement of one host
\* ends after its wait.
BatchDelete(w) ==
    /\ call[w].fn = "batch"
    /\ wpc[w] = "deleting"
    /\ ~DeleteWaits(w, snap[w])
    /\ deleted' = [deleted EXCEPT ![w] = @ \cup (snap[w] \cap store)]
    /\ snap' = [snap EXCEPT ![w] = {}]
    /\ BatchAdvance(w, host_i[w])
    /\ UNCHANGED <<store, now, calls, call, scan_timestamp, deleted_count,
                   inserted, ret, alone>>
    /\ UNCHANGED <<probeVars, poolVars, schemaVars, pageVars, seqVars>>

\* save_multiple_hosts_ports, lines 205-230, 235-238: the records of all hosts
\* are built and inserted in one batch; when int() or the INSERT raises, the
\* except clause rolls back. With no record the call returns 0 before any
\* commit or rollback (lines 222-224): closing its own connection (239-241)
\* discards its DELETEs, while on the caller's connection they stay in the
\* open transaction.
BatchInsert(w) ==
    /\ call[w].fn = "batch"
    /\ wpc[w] = "inserting"
    /\ LET hosts == call[w].hosts_ports_data IN
       IF \E i \in 1..Len(hosts) : RecordsRaise(hosts[i].open_ports)
       THEN Rollback(w)
       ELSE LET all_records == AllRecords(hosts, scan_timestamp[w]) IN
            IF Len(all_records) = 0
            THEN /\ deleted' = [deleted EXCEPT ![w] =
                                   IF call[w].conn = "none" THEN {} ELSE @]
                 /\ ret' = [ret EXCEPT ![w] = 0]
                 /\ wpc' = [wpc EXCEPT ![w] = "done"]
                 /\ UNCHANGED inserted
            ELSE /\ ~InsertWaits(w, all_records)
                 /\ \E db_error \in BOOLEAN :
                       IF db_error \/ UniqueViolation(store \ deleted[w], all_records)
                       THEN Rollback(w)
                       ELSE /\ wpc' = [wpc EXCEPT ![w] = "commit"]
                            /\ inserted' = [inserted EXCEPT ![w] = Range(all_records)]
                            /\ UNCHANGED <<deleted, ret>>
    /\ UNCHANGED <<store, now, calls, call, scan_timestamp, snap, deleted_count,
                   alone, host_i>>
    /\ UNCHANGED <<probeVars, poolVars, schemaVars, pageVars, seqVars>>

\* lines 147-151, 157-159 (and 229-233 of save_multiple_hosts_ports):
\* rows_affected is read, the transaction commits.
SaveCommit(w) ==
    /\ wpc[w] = "commit"
    /\ store' = (store \ deleted[w]) \cup inserted[w]
    /\ ret' = [ret EXCEPT ![w] = Cardinality(inserted[w])]
    /\ deleted' = [deleted EXCEPT ![w] = {}]
    /\ inserted' = [inserted EXCEPT ![w] = {}]
    /\ wpc' = [wpc EXCEPT ![w] = "done"]
    /\ UNCHANGED <<now, calls, call, scan_timestamp, snap, deleted_count, alone,
                   host_i>>
    /\ UNCHANGED <<probeVars, poolVars, schemaVars, pageVars, seqVars>>

\* The caller commits on its connection after the call has returned.
CallerCommit(w) ==
    /\ wpc[w] \in Ended
    /\ call[w].conn = "caller"
    /\ store' = store \ deleted[w]
    /\ deleted' = [deleted EXCEPT ![w] = {}]
    /\ UNCHANGED <<now, calls, wpc, call, scan_timestamp, snap, deleted_count,
                   inserted, ret, alone, host_i>>
    /\ UNCHANGED <<probeVars, poolVars, schemaVars, pageVars, seqVars>>

\* The caller has the return value; a connection the call opened is closed.
SaveReturn(w) ==
    /\ wpc[w] \in Ended
    /\ wpc' = [wpc EXCEPT ![w] = "idle"]
    /\ call' = [call EXCEPT ![w] = NoCall]
    /\ scan_timestamp' = [scan_timestamp EXCEPT ![w] = 0]
    /\ deleted_count' = [deleted_count EXCEPT ![w] = 0]
    /\ ret' = [ret EXCEPT ![w] = 0]
    /\ alone' = [alone EXCEPT ![w] = TRUE]
    /\ UNCHANGED <<store, now, calls, snap, deleted, inserted, host_i>>
    /\ UNCHANGED <<probeVars, poolVars, schemaVars, pageVars, seqVars>>

WriterNext ==
    \/ \E w \in Writers :
          \/ SaveBegin(w)
          \/ BatchBegin(w)
          \/ BatchDeleteStart(w)
          \/ BatchDelete(w)
          \/ BatchInsert(w)
          \/ SaveEmpty(w)
          \/ SaveDeleteStart(w)
          \/ SaveDelete(w)
          \/ SaveInsert(w)
          \/ SaveCommit(w)
          \/ SaveReturn(w)

\* execute_values is called without page_size (lines 146, 228): the
\* library's default.
PageSize == 100

\* No batched insert is running.
PageIdle ==
    /\ xpc = "idle"
    /\ argslist = 0
    /\ rowcount = -1
    /\ persisted = 0
    /\ rows_affected = 0

\* lines 133-145 (206-227 of save_multiple_hosts_ports): the records are
\* built, there is at least one, and the cursor is new.
PageInit ==
    /\ xpc = "execute"
    /\ argslist \in 1..MaxRows
    /\ rowcount = -1
    /\ persisted = 0
    /\ rows_affected = 0

\* execute_values, lines 146, 228: one INSERT statement per page of the
\* records; the cursor's rowcount is that of the statement just executed.
ExecutePage ==
    /\ xpc = "execute"
    /\ argslist > 0
    /\ LET page == IF argslist < PageSize THEN argslist ELSE PageSize IN
       /\ persisted' = persisted + page
       /\ rowcount' = page
       /\ argslist' = argslist - page
    /\ UNCHANGED <<xpc, rows_affected>>
    /\ UNCHANGED <<probeVars, poolVars, schemaVars, seqVars>>
    /\ UNCHANGED <<store, now, calls, wpc, call, scan_timestamp, snap, deleted,
                   deleted_count, inserted, ret, alone, host_i>>

\* lines 147-151 (229-233): rows_affected = cur.rowcount, commit, return.
ReturnRowsAffected ==
    /\ xpc = "execute"
    /\ argslist = 0
    /\ rows_affected' = rowcount
    /\ xpc' = "returned"
    /\ UNCHANGED <<argslist, rowcount, persisted>>
    /\ UNCHANGED <<probeVars, poolVars, schemaVars, seqVars>>
    /\ UNCHANGED <<store, now, calls, wpc, call, scan_timestamp, snap, deleted,
                   deleted_count, inserted, ret, alone, host_i>>

PageNext == ExecutePage \/ ReturnRowsAffected

\* scan_ports is not running.
ProbeIdle ==
    /\ ppc = "off"
    /\ ip_address = ""
    /\ primary_out = NoneVal
    /\ fallback_out = NoneVal
    /\ primaryCalls = 0
    /\ fallbackCalls = 0
    /\ scan_result = NoResult
    /\ open_ports = <<>>

-----------------------------------------------------------------------------
(* ports_service/multithreaded_scanner.py *)

\* limit=None
NoLimit == -1

\* What get_all_ip_addresses can return: one row per identity, in query order.
TargetNames == <<"A", "B", "C", "D", "E">>

Target(i) == [identity_key |-> TargetNames[i],
              ip_address |-> IF i % 2 = 1 THEN "10.0.0.1" ELSE "10.0.0.2"]

Tasks == 1..MaxTargets

\* What the probes of a run do.
OpenEntry == [portid |-> StrVal("22"), state |-> "open", protocol |-> "tcp",
              service |-> "unknown"]

RunPrimary == {[kind |-> "xml", ports |-> <<OpenEntry>>],
               [kind |-> "xml", ports |-> <<>>],
               [kind |-> "raise", cause |-> "timeout"]}

RunFallback == {[kind |-> "dict", has_addr |-> TRUE, has_ports |-> TRUE,
                 ports |-> <<OpenEntry>>],
                [kind |-> "raise", cause |-> "timeout"]}

\* ip_data_list[:limit], under "if limit:"
ApplyLimit(list, lim) ==
    IF lim = NoLimit \/ lim = 0 THEN list
    ELSE SubSeq(list, 1, IF lim < Len(list) THEN lim ELSE Len(list))

\* Tasks a worker thread is running.
InFlight == {i \in Tasks : stage[i] \in {"scan", "save"}}

\* Worker threads of the pool with no task.
FreeThreads == {t \in 1..max_workers : \A i \in InFlight : thread[i] # t}

\* lines 44-51
ScanFailedResult(t, error) ==
    [ip_address |-> t.ip_address, identity_key |-> t.identity_key,
     open_ports |-> <<>>, ports_saved |-> 0, scan_success |-> FALSE,
     error |-> error]

\* lines 66-73
ScanOkResult(t, ports, saved) ==
    [ip_address |-> t.ip_address, identity_key |-> t.identity_key,
     open_ports |-> ports, ports_saved |-> saved, scan_success |-> TRUE,
     error |-> NoneVal]

\* lines 75-87
ExceptionResult(t, e) ==
    [ip_address |-> t.ip_address, identity_key |-> t.identity_key,
     open_ports |-> <<>>, ports_saved |-> 0, scan_success |-> FALSE,
     error |-> [address |-> t.ip_address, exception |-> e]]

\* Nothing printed yet.
NoSummary == [emitted |-> FALSE, verbose |-> FALSE, scanned |-> NoneVal,
              succeeded |-> NoneVal, failed |-> NoneVal, saved |-> NoneVal]

\* lines 154-164. verbose: print_scan_summary prints len(completed_scans) out
\* of total_ips, len(failed_scans) and the ports saved. Otherwise one line
\* gives len(completed_scans) as the IPs scanned, and the ports saved.
SummaryOf(verbose, completed, failed, saved, total_ips) ==
    IF verbose
    THEN [emitted |-> TRUE, verbose |-> TRUE,
          scanned |-> IntVal(IF total_ips # 0 THEN total_ips
                             ELSE Len(completed) + Len(failed)),
          succeeded |-> IntVal(Len(completed)),
          failed |-> IntVal(Len(failed)),
          saved |-> IntVal(saved)]
    ELSE [emitted |-> TRUE, verbose |-> FALSE,
          scanned |-> IntVal(Len(completed)),
          succeeded |-> NoneVal,
          failed |-> NoneVal,
          saved |-> IntVal(saved)]

\* Worker threads a pool can have.
Threads == 1..(IF MaxWorkers > MaxTargets THEN MaxWorkers ELSE MaxTargets)

\* A thread without the nmap attribute; a task that has no handle.
NoHandle == [owner |-> 0, serial |-> 0]

\* The module-level handle of ports_service/main.py.
SharedHandle == [owner |-> 0, serial |-> 1]

\* A get_nmap that hands every caller the module-level handle.
get_nmap_shared(i, t) ==
    /\ nm' = [nm EXCEPT ![i] = SharedHandle]
    /\ UNCHANGED <<thread_local, handles_created>>

\* shared_utils/scanning.py lines 10-19, called by scan_ports on thread t for
\* task i: the thread's nmap attribute, made on the first call.
get_nmap(i, t) ==
    /\ IF thread_local[t] = NoHandle
       THEN /\ thread_local' = [thread_local EXCEPT ![t] =
                                   [owner |-> t, serial |-> handles_created[t] + 1]]
            /\ handles_created' = [handles_created EXCEPT ![t] = @ + 1]
       ELSE UNCHANGED <<thread_local, handles_created>>
    /\ nm' = [nm EXCEPT ![i] = thread_local'[t]]

\* No connection made.
NoConn == [id |-> 0, owner |-> 0, state |-> "none"]

\* One connection of the module, handed to every call.
get_db_connection_shared(i, t) ==
    db_conn' = [db_conn EXCEPT ![i] = [id |-> 1, owner |-> t, state |-> "open"]]

\* db_service/connection.py lines 25-28, called by save_open_ports_to_db
\* (lines 102-104) on thread t for task i: psycopg2.connect makes a new
\* connection on every call.
get_db_connection(i, t) ==
    db_conn' = [db_conn EXCEPT ![i] = [id |-> i, owner |-> t, state |-> "open"]]

NoTaskResult == [ip_address |-> "", identity_key |-> "", open_ports |-> <<>>,
                 ports_saved |-> 0, scan_success |-> FALSE, error |-> NoneVal]

\* No run of scan_all_ips_multithreaded.
PoolIdle ==
    /\ phase = "off"
    /\ max_workers = 0
    /\ limit = NoLimit
    /\ ip_data_list = <<>>
    /\ queue = <<>>
    /\ stage = [i \in Tasks |-> "none"]
    /\ thread = [i \in Tasks |-> 0]
    /\ dispatches = [i \in Tasks |-> 0]
    /\ task_ports = [i \in Tasks |-> <<>>]
    /\ result = [i \in Tasks |-> NoTaskResult]
    /\ yielded = {}
    /\ completed_scans = <<>>
    /\ failed_scans = <<>>
    /\ total_ports_saved = 0
    /\ retrieved = 0
    /\ lookup = "none"
    /\ summary = NoSummary
    /\ thread_local = [t \in Threads |-> NoHandle]
    /\ handles_created = [t \in Threads |-> 0]
    /\ nm = [i \in Tasks |-> NoHandle]
    /\ db_conn = [i \in Tasks |-> NoConn]

\* The call scan_all_ips_multithreaded(limit, max_workers).
PoolInit ==
    /\ phase = "Idle"
    /\ max_workers \in 1..MaxWorkers
    /\ limit \in {NoLimit} \cup 0..MaxTargets
    /\ ip_data_list = <<>>
    /\ queue = <<>>
    /\ stage = [i \in Tasks |-> "none"]
    /\ thread = [i \in Tasks |-> 0]
    /\ dispatches = [i \in Tasks |-> 0]
    /\ task_ports = [i \in Tasks |-> <<>>]
    /\ result = [i \in Tasks |-> NoTaskResult]
    /\ yielded = {}
    /\ completed_scans = <<>>
    /\ failed_scans = <<>>
    /\ total_ports_saved = 0
    /\ retrieved = 0
    /\ lookup = "none"
    /\ summary = NoSummary
    /\ thread_local = [t \in Threads |-> NoHandle]
    /\ handles_created = [t \in Threads |-> 0]
    /\ nm = [i \in Tasks |-> NoHandle]
    /\ db_conn = [i \in Tasks |-> NoConn]

\* lines 101-102: get_all_ip_addresses returns the targets; when its
\* connection or its query raises, its except clause returns [] instead
\* (shared_utils/data_access.py lines 64-66).
FetchTargets ==
    /\ phase = "Idle"
    /\ \/ /\ \E n \in 0..MaxTargets : ip_data_list' = [i \in 1..n |-> Target(i)]
          /\ lookup' = "ok"
       \/ /\ ip_data_list' = <<>>
          /\ lookup' = "failed"
    /\ retrieved' = Len(ip_data_list')
    /\ phase' = "FetchingTargets"
    /\ UNCHANGED <<max_workers, limit, queue, stage, thread, dispatches,
                   task_ports, result, yielded, completed_scans, failed_scans,
                   total_ports_saved, summary>>
    /\ UNCHANGED <<probeVars, writerVars, handleVars, seqVars>>

\* lines 104-108: no target, the function returns.
NoTargets ==
    /\ phase = "FetchingTargets"
    /\ Len(ip_data_list) = 0
    /\ phase' = "Returned"
    /\ UNCHANGED <<max_workers, limit, ip_data_list, queue, stage, thread,
                   dispatches, task_ports, result, yielded, completed_scans,
                   failed_scans, total_ports_saved>>
    /\ UNCHANGED <<probeVars, writerVars, reportVars, handleVars, seqVars>>

\* lines 110-127: the list is truncated, the executor is made and every target
\* is submitted to it.
SubmitAll ==
    /\ phase = "FetchingTargets"
    /\ Len(ip_data_list) > 0
    /\ LET list == ApplyLimit(ip_data_list, limit) IN
       /\ ip_data_list' = list
       /\ queue' = [i \in 1..Len(list) |-> i]
       /\ stage' = [i \in Tasks |-> IF i <= Len(list) THEN "queued" ELSE "none"]
    /\ phase' = "Scanning"
    /\ UNCHANGED <<max_workers, limit, thread, dispatches, task_ports, result,
                   yielded, completed_scans, failed_scans, total_ports_saved>>
    /\ UNCHANGED <<probeVars, writerVars, reportVars, handleVars, seqVars>>

\* A pool that starts a thread for every task.
StartTaskUnbounded(i) ==
    /\ phase = "Scanning"
    /\ queue # <<>>
    /\ i = Head(queue)
    /\ \E t \in 1..MaxTargets : \A j \in InFlight : thread[j] # t
    /\ thread' = [thread EXCEPT ![i] =
                     CHOOSE t \in 1..MaxTargets : \A j \in InFlight : thread[j] # t]
    /\ get_nmap(i, thread'[i])
    /\ queue' = Tail(queue)
    /\ stage' = [stage EXCEPT ![i] = "scan"]
    /\ dispatches' = [dispatches EXCEPT ![i] = @ + 1]
    /\ UNCHANGED <<phase, max_workers, limit, ip_data_list, task_ports, result,
                   yielded, completed_scans, failed_scans, total_ports_saved>>
    /\ UNCHANGED <<probeVars, writerVars, reportVars, seqVars, db_conn>>

\* ThreadPoolExecutor(max_workers): a worker thread with no task takes the
\* oldest submitted task and calls scan_single_ip_threaded on it, which enters
\* scan_ports and takes the thread's handle; the probe is then running. The
\* workers go on taking tasks while the executor shuts down: shutdown(wait=True)
\* cancels no future.
StartTask(i) ==
    /\ phase \in {"Scanning", "ShuttingDown"}
    /\ queue # <<>>
    /\ i = Head(queue)
    /\ \E t \in FreeThreads :
          /\ thread' = [thread EXCEPT ![i] = t]
          /\ get_nmap(i, t)
    /\ queue' = Tail(queue)
    /\ stage' = [stage EXCEPT ![i] = "scan"]
    /\ dispatches' = [dispatches EXCEPT ![i] = @ + 1]
    /\ UNCHANGED <<phase, max_workers, limit, ip_data_list, task_ports, result,
                   yielded, completed_scans, failed_scans, total_ports_saved>>
    /\ UNCHANGED <<probeVars, writerVars, reportVars, seqVars, db_conn>>

\* A worker that clears the stored rows of a target whose scan failed.
ScanTaskCleans(i) ==
    /\ stage[i] = "scan"
    /\ \E pout \in RunPrimary, fout \in RunFallback :
          LET t == ip_data_list[i]
              res == scan_ports(t.ip_address, pout, fout)
              ports == get_open_ports_from_scan(res)
          IN  IF ~res.success
              THEN /\ result' = [result EXCEPT ![i] = ScanFailedResult(t, res.error)]
                   /\ stage' = [stage EXCEPT ![i] = "finished"]
                   /\ store' = {r \in store : r.identity_key # t.identity_key}
                   /\ UNCHANGED task_ports
              ELSE IF Len(ports) > 0
              THEN /\ task_ports' = [task_ports EXCEPT ![i] = ports]
                   /\ stage' = [stage EXCEPT ![i] = "save"]
                   /\ UNCHANGED <<result, store>>
              ELSE /\ result' = [result EXCEPT ![i] = ScanOkResult(t, ports, 0)]
                   /\ stage' = [stage EXCEPT ![i] = "finished"]
                   /\ UNCHANGED <<task_ports, store>>
    /\ UNCHANGED <<phase, max_workers, limit, ip_data_list, queue, thread,
                   dispatches, yielded, completed_scans, failed_scans,
                   total_ports_saved>>
    /\ UNCHANGED <<now, calls, wpc, call, scan_timestamp, snap, deleted,
                   deleted_count, inserted, ret, alone, host_i, schemaVars,
                   pageVars>>
    /\ UNCHANGED <<probeVars, reportVars, handleVars, seqVars>>

\* lines 37-54, 62-73: scan_ports and get_open_ports_from_scan; the task ends
\* here when the scan failed or found no open port.
ScanTask(i) ==
    /\ stage[i] = "scan"
    /\ \E pout \in RunPrimary, fout \in RunFallback :
          LET t == ip_data_list[i]
              res == scan_ports(t.ip_address, pout, fout)
              ports == get_open_ports_from_scan(res)
          IN  IF ~res.success
              THEN /\ result' = [result EXCEPT ![i] = ScanFailedResult(t, res.error)]
                   /\ stage' = [stage EXCEPT ![i] = "finished"]
                   /\ UNCHANGED task_ports
              ELSE IF Len(ports) > 0
              THEN /\ task_ports' = [task_ports EXCEPT ![i] = ports]
                   /\ stage' = [stage EXCEPT ![i] = "save"]
                   /\ UNCHANGED result
              ELSE /\ result' = [result EXCEPT ![i] = ScanOkResult(t, ports, 0)]
                   /\ stage' = [stage EXCEPT ![i] = "finished"]
                   /\ UNCHANGED task_ports
    /\ UNCHANGED <<phase, max_workers, limit, ip_data_list, queue, thread,
                   dispatches, yielded, completed_scans, failed_scans,
                   total_ports_saved>>
    /\ UNCHANGED <<probeVars, writerVars, reportVars, handleVars, seqVars>>

\* A worker that adds the count of its save to the run's counter itself.
SaveTaskCounting(i) ==
    /\ stage[i] = "save"
    /\ \E ts \in now..MaxClock, db \in {"ok", "error", "raise"} :
          LET t == ip_data_list[i]
              ports == task_ports[i]
              old == SameDayRows(store, t.ip_address, t.identity_key, ts)
              recs == Records(ports, t.identity_key, t.ip_address, ts)
          IN  /\ now' = ts
              /\ IF db = "raise"
                 THEN /\ result' = [result EXCEPT ![i] =
                                       ExceptionResult(t, "connection error")]
                      /\ UNCHANGED <<store, total_ports_saved>>
                 ELSE IF db = "error" \/ RecordsRaise(ports)
                            \/ UniqueViolation(store \ old, recs)
                 THEN /\ result' = [result EXCEPT ![i] = ScanOkResult(t, ports, 0)]
                      /\ UNCHANGED <<store, total_ports_saved>>
                 ELSE /\ result' = [result EXCEPT ![i] =
                                       ScanOkResult(t, ports, Len(recs))]
                      /\ store' = (store \ old) \cup Range(recs)
                      /\ total_ports_saved' = total_ports_saved + Len(recs)
    /\ stage' = [stage EXCEPT ![i] = "finished"]
    /\ UNCHANGED <<phase, max_workers, limit, ip_data_list, queue, thread,
                   dispatches, task_ports, yielded, completed_scans,
                   failed_scans>>
    /\ UNCHANGED <<calls, wpc, call, scan_timestamp, snap, deleted,
                   deleted_count, inserted, ret, alone, host_i, schemaVars,
                   pageVars>>
    /\ UNCHANGED <<probeVars, reportVars, handleVars, seqVars>>

\* lines 56-61, 66-87: save_open_ports_to_db on a connection of its own. The
\* call commits its delete and insert, or fails inside and returns 0 after its
\* rollback, or raises (no connection, or the rollback itself fails), which the
\* except clause of scan_single_ip_threaded turns into a failed result.
SaveTask(i) ==
    /\ stage[i] = "save"
    /\ \E ts \in now..MaxClock, db \in {"ok", "error", "raise"} :
          LET t == ip_data_list[i]
              ports == task_ports[i]
              old == SameDayRows(store, t.ip_address, t.identity_key, ts)
              recs == Records(ports, t.identity_key, t.ip_address, ts)
          IN  /\ now' = ts
              /\ IF db = "raise"
                 THEN /\ result' = [result EXCEPT ![i] =
                                       ExceptionResult(t, "connection error")]
                      /\ UNCHANGED store
                 ELSE IF db = "error" \/ RecordsRaise(ports)
                            \/ UniqueViolation(store \ old, recs)
                 THEN /\ result' = [result EXCEPT ![i] = ScanOkResult(t, ports, 0)]
                      /\ UNCHANGED store
                 ELSE /\ result' = [result EXCEPT ![i] =
                                       ScanOkResult(t, ports, Len(recs))]
                      /\ store' = (store \ old) \cup Range(recs)
    /\ stage' = [stage EXCEPT ![i] = "finished"]
    /\ UNCHANGED <<phase, max_workers, limit, ip_data_list, queue, thread,
                   dispatches, task_ports, yielded, completed_scans,
                   failed_scans, total_ports_saved>>
    /\ UNCHANGED <<calls, wpc, call, scan_timestamp, snap, deleted,
                   deleted_count, inserted, ret, alone, host_i, schemaVars,
                   pageVars>>
    /\ UNCHANGED <<probeVars, reportVars, handleVars, seqVars>>

\* A drain loop that files the successes only.
DrainSuccessOnly(i) ==
    /\ phase = "Scanning"
    /\ stage[i] = "finished"
    /\ i \notin yielded
    /\ yielded' = yielded \cup {i}
    /\ IF result[i].scan_success
       THEN /\ completed_scans' = Append(completed_scans, result[i])
            /\ total_ports_saved' = total_ports_saved + result[i].ports_saved
            /\ UNCHANGED failed_scans
       ELSE UNCHANGED <<completed_scans, failed_scans, total_ports_saved>>
    /\ UNCHANGED <<phase, max_workers, limit, ip_data_list, queue, stage,
                   thread, dispatches, task_ports, result>>
    /\ UNCHANGED <<probeVars, writerVars, reportVars, handleVars, seqVars>>

\* lines 56-59, 75-87, and save_open_ports_to_db.py lines 100-104: the worker
\* calls save_open_ports_to_db without conn, which opens a connection; when
\* get_db_connection raises, the except clause of scan_single_ip_threaded
\* returns a failed result.
SaveOpen(i) ==
    /\ stage[i] = "save"
    /\ db_conn[i].state = "none"
    /\ \/ /\ get_db_connection(i, thread[i])
          /\ UNCHANGED <<stage, result>>
       \/ /\ result' = [result EXCEPT ![i] =
                            ExceptionResult(ip_data_list[i], "connection error")]
          /\ stage' = [stage EXCEPT ![i] = "finished"]
          /\ UNCHANGED db_conn
    /\ UNCHANGED <<phase, max_workers, limit, ip_data_list, queue, thread,
                   dispatches, task_ports, yielded, completed_scans,
                   failed_scans, total_ports_saved, thread_local,
                   handles_created, nm>>
    /\ UNCHANGED <<probeVars, writerVars, reportVars, seqVars>>

\* save_open_ports_to_db.py lines 106-159 on the connection the call opened:
\* the delete and insert commit, or fail and the call returns 0 after its
\* rollback, or the rollback raises and the except clause of
\* scan_single_ip_threaded returns a failed result; the finally clause closes
\* the connection every time.
SaveWrite(i) ==
    /\ stage[i] = "save"
    /\ db_conn[i].state = "open"
    /\ \E ts \in now..MaxClock, db \in {"ok", "error", "raise"} :
          LET t == ip_data_list[i]
              ports == task_ports[i]
              old == SameDayRows(store, t.ip_address, t.identity_key, ts)
              recs == Records(ports, t.identity_key, t.ip_address, ts)
          IN  /\ now' = ts
              /\ IF db = "raise"
                 THEN /\ result' = [result EXCEPT ![i] =
                                       ExceptionResult(t, "connection error")]
                      /\ UNCHANGED store
                 ELSE IF db = "error" \/ RecordsRaise(ports)
                            \/ UniqueViolation(store \ old, recs)
                 THEN /\ result' = [result EXCEPT ![i] = ScanOkResult(t, ports, 0)]
                      /\ UNCHANGED store
                 ELSE /\ result' = [result EXCEPT ![i] =
                                       ScanOkResult(t, ports, Len(recs))]
                      /\ store' = (store \ old) \cup Range(recs)
    /\ db_conn' = [db_conn EXCEPT ![i].state = "closed"]
    /\ stage' = [stage EXCEPT ![i] = "finished"]
    /\ UNCHANGED <<phase, max_workers, limit, ip_data_list, queue, thread,
                   dispatches, task_ports, yielded, completed_scans,
                   failed_scans, total_ports_saved, thread_local,
                   handles_created, nm>>
    /\ UNCHANGED <<calls, wpc, call, scan_timestamp, snap, deleted,
                   deleted_count, inserted, ret, alone, host_i, schemaVars,
                   pageVars>>
    /\ UNCHANGED <<probeVars, reportVars, seqVars>>

\* lines 130-152: as_completed yields a finished future; its result is filed.
\* future.result() returns: scan_single_ip_threaded catches every Exception,
\* so the except clause at 145-152 is never entered.
Drain(i) ==
    /\ phase = "Scanning"
    /\ stage[i] = "finished"
    /\ i \notin yielded
    /\ yielded' = yielded \cup {i}
    /\ IF result[i].scan_success
       THEN /\ completed_scans' = Append(completed_scans, result[i])
            /\ total_ports_saved' = total_ports_saved + result[i].ports_saved
            /\ UNCHANGED failed_scans
       ELSE /\ failed_scans' = Append(failed_scans, result[i])
            /\ UNCHANGED <<completed_scans, total_ports_saved>>
    /\ UNCHANGED <<phase, max_workers, limit, ip_data_list, queue, stage,
                   thread, dispatches, task_ports, result>>
    /\ UNCHANGED <<probeVars, writerVars, reportVars, handleVars, seqVars>>

\* A coordinator that leaves its loop as soon as no submitted task is waiting
\* for a worker.
PoolDrainedEarly ==
    /\ phase = "Scanning"
    /\ queue = <<>>
    /\ phase' = "Summarizing"
    /\ UNCHANGED <<max_workers, limit, ip_data_list, queue, stage, thread,
                   dispatches, task_ports, result, yielded, completed_scans,
                   failed_scans, total_ports_saved>>
    /\ UNCHANGED <<probeVars, writerVars, reportVars, handleVars, seqVars>>

\* lines 152-156: every future was yielded; the with block shuts the pool down.
PoolDrained ==
    /\ phase = "Scanning"
    /\ yielded = 1..Len(ip_data_list)
    /\ phase' = "Summarizing"
    /\ UNCHANGED <<max_workers, limit, ip_data_list, queue, stage, thread,
                   dispatches, task_ports, result, yielded, completed_scans,
                   failed_scans, total_ports_saved>>
    /\ UNCHANGED <<probeVars, writerVars, reportVars, handleVars, seqVars>>

\* lines 154-164: the summary is printed, in the form the verbose argument
\* selects.
Summarize ==
    /\ phase = "Summarizing"
    /\ \E verbose \in BOOLEAN :
          summary' = SummaryOf(verbose, completed_scans, failed_scans,
                               total_ports_saved, Len(ip_data_list))
    /\ phase' = "Done"
    /\ UNCHANGED <<max_workers, limit, ip_data_list, queue, stage, thread,
                   dispatches, task_ports, result, yielded, completed_scans,
                   failed_scans, total_ports_saved, retrieved, lookup>>
    /\ UNCHANGED <<probeVars, writerVars, handleVars, seqVars>>

Next ==
    \/ FetchTargets
    \/ NoTargets
    \/ SubmitAll
    \/ \E i \in Tasks :
          \/ StartTask(i)
          \/ ScanTask(i)
          \/ SaveTask(i)
          \/ Drain(i)
    \/ PoolDrained
    \/ Summarize

\* lines 122-152: KeyboardInterrupt is raised in the coordinator while it waits
\* in as_completed. Nothing in scan_all_ips_multithreaded catches it: it leaves
\* the for loop and the with block, whose exit calls executor.shutdown(wait=True).
Interrupt ==
    /\ phase = "Scanning"
    /\ phase' = "ShuttingDown"
    /\ UNCHANGED <<max_workers, limit, ip_data_list, queue, stage, thread,
                   dispatches, task_ports, result, yielded, completed_scans,
                   failed_scans, total_ports_saved>>
    /\ UNCHANGED <<probeVars, writerVars, reportVars, handleVars, seqVars>>

\* line 122: shutdown(wait=True) returns once the workers have run every
\* submitted task; the KeyboardInterrupt then leaves the function, past the
\* summary at lines 154-164.
ShutdownDone ==
    /\ phase = "ShuttingDown"
    /\ queue = <<>>
    /\ InFlight = {}
    /\ phase' = "Interrupted"
    /\ UNCHANGED <<max_workers, limit, ip_data_list, queue, stage, thread,
                   dispatches, task_ports, result, yielded, completed_scans,
                   failed_scans, total_ports_saved>>
    /\ UNCHANGED <<probeVars, writerVars, reportVars, handleVars, seqVars>>

\* A run that can be interrupted.
InterruptNext ==
    \/ Next
    \/ Interrupt
    \/ ShutdownDone

-----------------------------------------------------------------------------
(***************************************************************************)
(* ports_service/main.py: the sequential run, and port_scanner.py          *)
(***************************************************************************)

\* The connections of a sequential run: the one get_all_ip_addresses opens,
\* the one scan_all_ips_from_db opens and hands to every save, and the one a
\* call of save_open_ports_to_db without conn opens.
Conns == {"lookup", "run", "own"}

\* What nmap.scan_top_ports(ip_address) does (main.py line 52,
\* port_scanner.py line 56): a dict with the address and its ports, a dict
\* without the address, or an exception.
TopPortsOutcomes ==
    {[kind |-> "dict", has_addr |-> TRUE, ports |-> <<OpenEntry>>],
     [kind |-> "dict", has_addr |-> TRUE, ports |-> <<>>],
     [kind |-> "dict", has_addr |-> FALSE, ports |-> <<>>],
     [kind |-> "raise", has_addr |-> FALSE, ports |-> <<>>]}

\* main.py lines 18-38 (port_scanner.py 16-36)
get_port_info(port) ==
    [protocol |-> port.protocol, port |-> port.portid, service |-> port.service]

RECURSIVE OpenPortInfos(_)
\* main.py lines 59-64: the loop over scanned_ports.
OpenPortInfos(entries) ==
    IF entries = <<>> THEN <<>>
    ELSE IF Head(entries).state = "open"
         THEN <<get_port_info(Head(entries))>> \o OpenPortInfos(Tail(entries))
         ELSE OpenPortInfos(Tail(entries))

\* main.py lines 40-71 (port_scanner.py 38-79): scan_ports returns the open
\* ports, or [] when the address is missing and when anything raised.
main_scan_ports(out) ==
    IF out.kind = "raise" THEN <<>>
    ELSE IF ~out.has_addr THEN <<>>
    ELSE OpenPortInfos(out.ports)

\* main.py lines 101-106
SeqResult(t, ports, saved) ==
    [ip_address |-> t.ip_address, identity_key |-> t.identity_key,
     open_ports |-> ports, saved_count |-> saved]

\* port_scanner.py lines 103-111 (scan_time left out)
PsResult(t, ports) ==
    [ip_address |-> t.ip_address, identity_key |-> t.identity_key,
     open_ports |-> ports, success |-> TRUE]

NoPsResult == [ip_address |-> "", identity_key |-> "", open_ports |-> <<>>,
               success |-> FALSE]

NoSeqSummary == [emitted |-> FALSE, scanned |-> 0, saved |-> 0]

\* No sequential run and no call of port_scanner.
SeqIdle ==
    /\ spc = "off"
    /\ seq_limit = NoLimit
    /\ seq_list = <<>>
    /\ seq_i = 0
    /\ seq_probe = <<>>
    /\ seq_results = <<>>
    /\ total_scanned = 0
    /\ seq_ports_saved = 0
    /\ seq_summary = NoSeqSummary
    /\ conn_state = [c \in Conns |-> "none"]
    /\ ps_probe = "none"
    /\ ps_result = NoPsResult

\* The call scan_all_ips_from_db(limit).
SeqInit ==
    /\ spc = "Idle"
    /\ seq_limit \in {NoLimit} \cup 0..MaxTargets
    /\ seq_list = <<>>
    /\ seq_i = 0
    /\ seq_probe = <<>>
    /\ seq_results = <<>>
    /\ total_scanned = 0
    /\ seq_ports_saved = 0
    /\ seq_summary = NoSeqSummary
    /\ conn_state = [c \in Conns |-> "none"]
    /\ ps_probe = "none"
    /\ ps_result = NoPsResult

\* get_all_ip_addresses.py lines 30-33, 54-59: get_db_connection returns a
\* connection, or raises and the function returns [].
SeqFetch ==
    /\ spc = "Idle"
    /\ \/ /\ conn_state' = [conn_state EXCEPT !["lookup"] = "open"]
          /\ spc' = "Fetching"
       \/ /\ spc' = "Fetched"
          /\ UNCHANGED conn_state
    /\ UNCHANGED <<seq_limit, seq_list, seq_i, seq_probe, seq_results,
                   total_scanned, seq_ports_saved, seq_summary, ps_probe,
                   ps_result>>
    /\ UNCHANGED <<probeVars, writerVars, poolVars>>

\* get_all_ip_addresses.py lines 35-59: the query returns the rows, or raises
\* and the function returns []; the finally clause closes the connection.
SeqFetched ==
    /\ spc = "Fetching"
    /\ \/ \E n \in 0..MaxTargets : seq_list' = [i \in 1..n |-> Target(i)]
       \/ seq_list' = <<>>
    /\ conn_state' = [conn_state EXCEPT !["lookup"] = "closed"]
    /\ spc' = "Fetched"
    /\ UNCHANGED <<seq_limit, seq_i, seq_probe, seq_results, total_scanned,
                   seq_ports_saved, seq_summary, ps_probe, ps_result>>
    /\ UNCHANGED <<probeVars, writerVars, poolVars>>

\* main.py lines 122-124: no target, the function returns.
SeqNoTargets ==
    /\ spc = "Fetched"
    /\ seq_list = <<>>
    /\ spc' = "Returned"
    /\ UNCHANGED <<seq_limit, seq_list, seq_i, seq_probe, seq_results,
                   total_scanned, seq_ports_saved, seq_summary, conn_state,
                   ps_probe, ps_result>>
    /\ UNCHANGED <<probeVars, writerVars, poolVars>>

\* main.py lines 126-140: the list is truncated and the run's connection is
\* opened; when get_db_connection raises, the exception leaves the function.
SeqConnect ==
    /\ spc = "Fetched"
    /\ seq_list # <<>>
    /\ seq_list' = ApplyLimit(seq_list, seq_limit)
    /\ \/ /\ conn_state' = [conn_state EXCEPT !["run"] = "open"]
          /\ spc' = "Loop"
       \/ /\ spc' = "Raised"
          /\ UNCHANGED conn_state
    /\ UNCHANGED <<seq_limit, seq_i, seq_probe, seq_results, total_scanned,
                   seq_ports_saved, seq_summary, ps_probe, ps_result>>
    /\ UNCHANGED <<probeVars, writerVars, poolVars>>

\* The loop body has returned its result for the next target.
SeqHandled(t, ports, saved) ==
    /\ seq_results' = Append(seq_results, SeqResult(t, ports, saved))
    /\ seq_i' = seq_i + 1
    /\ total_scanned' = total_scanned + 1
    /\ seq_ports_saved' = seq_ports_saved + saved
    /\ UNCHANGED <<spc, conn_state>>

\* main.py lines 142-147 and 73-106, with save_open_ports_to_db on the run's
\* connection: one target is scanned and, with open ports, saved. The save
\* commits, or fails and returns 0 after its rollback (lines 153-156 of
\* save_open_ports_to_db.py); on a broken connection the rollback raises too,
\* the exception leaves the loop for the except clause at line 169, and the
\* finally clause closes the connection.
SeqScanAndSave ==
    /\ spc = "Loop"
    /\ seq_i < Len(seq_list)
    /\ \E out \in TopPortsOutcomes, db \in {"ok", "error", "broken"},
          ts \in now..MaxClock :
          LET t == seq_list[seq_i + 1]
              ports == main_scan_ports(out)
              old == SameDayRows(store, t.ip_address, t.identity_key, ts)
              recs == Records(ports, t.identity_key, t.ip_address, ts)
          IN  /\ seq_probe' = Append(seq_probe, out.kind)
              /\ IF ports = <<>>
                 THEN /\ SeqHandled(t, ports, 0)
                      /\ UNCHANGED <<store, now>>
                 ELSE /\ now' = ts
                      /\ IF db = "broken"
                         THEN /\ spc' = "Aborted"
                              /\ conn_state' = [conn_state EXCEPT !["run"] = "closed"]
                              /\ UNCHANGED <<store, seq_results, seq_i,
                                             total_scanned, seq_ports_saved>>
                         ELSE IF db = "error" \/ RecordsRaise(ports)
                                    \/ UniqueViolation(store \ old, recs)
                         THEN /\ SeqHandled(t, ports, 0)
                              /\ UNCHANGED store
                         ELSE /\ SeqHandled(t, ports, Len(recs))
                              /\ store' = (store \ old) \cup Range(recs)
    /\ UNCHANGED <<seq_limit, seq_list, seq_summary, ps_probe, ps_result>>
    /\ UNCHANGED <<calls, wpc, call, scan_timestamp, snap, deleted,
                   deleted_count, inserted, ret, alone, host_i, schemaVars,
                   pageVars>>
    /\ UNCHANGED <<probeVars, poolVars>>

\* main.py lines 155-173: the loop has ended, the summary is printed and the
\* finally clause closes the connection.
SeqSummary ==
    /\ spc = "Loop"
    /\ seq_i = Len(seq_list)
    /\ seq_summary' = [emitted |-> TRUE, scanned |-> total_scanned,
                       saved |-> seq_ports_saved]
    /\ conn_state' = [conn_state EXCEPT !["run"] = "closed"]
    /\ spc' = "Done"
    /\ UNCHANGED <<seq_limit, seq_list, seq_i, seq_probe, seq_results,
                   total_scanned, seq_ports_saved, ps_probe, ps_result>>
    /\ UNCHANGED <<probeVars, writerVars, poolVars>>

\* port_scanner.py lines 81-111: scan_single_ip_threaded on one target.
PortScannerTask ==
    /\ ps_probe = "none"
    /\ \E out \in TopPortsOutcomes :
          /\ ps_probe' = out.kind
          /\ ps_result' = PsResult(Target(1), main_scan_ports(out))
    /\ UNCHANGED <<spc, seq_limit, seq_list, seq_i, seq_probe, seq_results,
                   total_scanned, seq_ports_saved, seq_summary, conn_state>>
    /\ UNCHANGED <<probeVars, writerVars, poolVars>>

\* save_open_ports_to_db.py lines 100-104: a call of save_open_ports_to_db
\* without conn opens a connection of its own; when get_db_connection raises,
\* the exception leaves the function with no connection made.
OwnSaveOpen ==
    /\ wpc[1] = "idle"
    /\ \E p \in Pairs, ports \in ObsLists :
          call' = [call EXCEPT ![1] = [fn |-> "single",
                                       open_ports |-> ports,
                                       identity_key |-> p.identity_key,
                                       ip_address |-> p.ip_address,
                                       hosts_ports_data |-> <<>>,
                                       conn |-> "none"]]
    /\ \/ /\ conn_state' = [conn_state EXCEPT !["own"] = "open"]
          /\ wpc' = [wpc EXCEPT ![1] = "entered"]
       \/ /\ wpc' = [wpc EXCEPT ![1] = "raised"]
          /\ UNCHANGED conn_state
    /\ UNCHANGED <<spc, seq_limit, seq_list, seq_i, seq_probe, seq_results,
                   total_scanned, seq_ports_saved, seq_summary, ps_probe,
                   ps_result>>
    /\ UNCHANGED <<store, now, calls, scan_timestamp, snap, deleted,
                   deleted_count, inserted, ret, alone, host_i, schemaVars,
                   pageVars>>
    /\ UNCHANGED <<probeVars, poolVars>>

\* A save that closes its connection only when it has committed.
OwnSaveEndNoFinally ==
    /\ wpc[1] = "entered"
    /\ conn_state["own"] = "open"
    /\ \E db \in {"ok", "error", "broken"}, ts \in now..MaxClock :
          LET ports == call[1].open_ports
              old == SameDayRows(store, call[1].ip_address,
                                 call[1].identity_key, ts)
              recs == Records(ports, call[1].identity_key,
                              call[1].ip_address, ts)
          IN  IF ports = <<>>
              THEN /\ ret' = [ret EXCEPT ![1] = 0]
                   /\ wpc' = [wpc EXCEPT ![1] = "done"]
                   /\ UNCHANGED <<store, now, conn_state>>
              ELSE /\ now' = ts
                   /\ IF db = "broken"
                      THEN /\ wpc' = [wpc EXCEPT ![1] = "raised"]
                           /\ UNCHANGED <<store, ret, conn_state>>
                      ELSE IF db = "error" \/ RecordsRaise(ports)
                                 \/ UniqueViolation(store \ old, recs)
                      THEN /\ ret' = [ret EXCEPT ![1] = 0]
                           /\ wpc' = [wpc EXCEPT ![1] = "failed"]
                           /\ UNCHANGED <<store, conn_state>>
                      ELSE /\ ret' = [ret EXCEPT ![1] = Len(recs)]
                           /\ wpc' = [wpc EXCEPT ![1] = "done"]
                           /\ store' = (store \ old) \cup Range(recs)
                           /\ conn_state' = [conn_state EXCEPT !["own"] = "closed"]
    /\ UNCHANGED <<spc, seq_limit, seq_list, seq_i, seq_probe, seq_results,
                   total_scanned, seq_ports_saved, seq_summary, ps_probe,
                   ps_result>>
    /\ UNCHANGED <<calls, call, scan_timestamp, snap, deleted, deleted_count,
                   inserted, alone, host_i, schemaVars, pageVars>>
    /\ UNCHANGED <<probeVars, poolVars>>

\* save_open_ports_to_db.py lines 106-159, on the connection the call opened:
\* nothing to save (110-112), or the delete and insert commit (115-151), or
\* they fail and the except clause rolls back and returns 0 (153-156), or the
\* rollback raises on a broken connection and the exception leaves the
\* function. The finally clause (157-159) closes the connection every time.
OwnSaveEnd ==
    /\ wpc[1] = "entered"
    /\ conn_state["own"] = "open"
    /\ \E db \in {"ok", "error", "broken"}, ts \in now..MaxClock :
          LET ports == call[1].open_ports
              old == SameDayRows(store, call[1].ip_address,
                                 call[1].identity_key, ts)
              recs == Records(ports, call[1].identity_key,
                              call[1].ip_address, ts)
          IN  IF ports = <<>>
              THEN /\ ret' = [ret EXCEPT ![1] = 0]
                   /\ wpc' = [wpc EXCEPT ![1] = "done"]
                   /\ UNCHANGED <<store, now>>
              ELSE /\ now' = ts
                   /\ IF db = "broken"
                      THEN /\ wpc' = [wpc EXCEPT ![1] = "raised"]
                           /\ UNCHANGED <<store, ret>>
                      ELSE IF db = "error" \/ RecordsRaise(ports)
                                 \/ UniqueViolation(store \ old, recs)
                      THEN /\ ret' = [ret EXCEPT ![1] = 0]
                           /\ wpc' = [wpc EXCEPT ![1] = "failed"]
                           /\ UNCHANGED store
                      ELSE /\ ret' = [ret EXCEPT ![1] = Len(recs)]
                           /\ wpc' = [wpc EXCEPT ![1] = "done"]
                           /\ store' = (store \ old) \cup Range(recs)
    /\ conn_state' = [conn_state EXCEPT !["own"] = "closed"]
    /\ UNCHANGED <<spc, seq_limit, seq_list, seq_i, seq_probe, seq_results,
                   total_scanned, seq_ports_saved, seq_summary, ps_probe,
                   ps_result>>
    /\ UNCHANGED <<calls, call, scan_timestamp, snap, deleted, deleted_count,
                   inserted, alone, host_i, schemaVars, pageVars>>
    /\ UNCHANGED <<probeVars, poolVars>>

SeqNext ==
    \/ SeqFetch
    \/ SeqFetched
    \/ SeqNoTargets
    \/ SeqConnect
    \/ SeqScanAndSave
    \/ SeqSummary
    \/ PortScannerTask
    \/ OwnSaveOpen
    \/ OwnSaveEnd

InitSeq == ProbeIdle /\ WriterInit /\ PageIdle /\ SeqInit /\ PoolIdle

SpecSeq == InitSeq /\ [][SeqNext]_vars

Init == ProbeIdle /\ WriterInit /\ PageIdle /\ SeqIdle /\ PoolInit

\* A run with the opening of a save's connection as a step of its own.
ConnNext ==
    \/ FetchTargets
    \/ NoTargets
    \/ SubmitAll
    \/ \E i \in Tasks :
          \/ StartTask(i)
          \/ ScanTask(i)
          \/ SaveOpen(i)
          \/ SaveWrite(i)
          \/ Drain(i)
    \/ PoolDrained
    \/ Summarize

InitConn ==
    ProbeIdle /\ WriterInit /\ PageIdle /\ SeqIdle /\ PoolInit /\ limit = NoLimit

SpecConn == InitConn /\ [][ConnNext]_vars

\* What an earlier run has stored: port 22 of every target.
EarlierRows ==
    {[ip_address |-> Target(i).ip_address,
      identity_key |-> Target(i).identity_key, protocol |-> "tcp",
      port |-> 22, service |-> "unknown", timestamp |-> 0] : i \in Tasks}

\* The store and the save functions before a run over a store that holds the
\* rows of an earlier run.
WriterRescan ==
    /\ store = EarlierRows
    /\ now = 0
    /\ calls = 0
    /\ wpc = [w \in Writers |-> "idle"]
    /\ call = [w \in Writers |-> NoCall]
    /\ scan_timestamp = [w \in Writers |-> 0]
    /\ snap = [w \in Writers |-> {}]
    /\ deleted = [w \in Writers |-> {}]
    /\ deleted_count = [w \in Writers |-> 0]
    /\ inserted = [w \in Writers |-> {}]
    /\ ret = [w \in Writers |-> 0]
    /\ alone = [w \in Writers |-> TRUE]
    /\ host_i = [w \in Writers |-> 0]
    /\ table_exists = TRUE
    /\ constraint_exists = TRUE
    /\ provision = [w \in Writers |-> "none"]

\* A run without limit over a store that holds the rows of an earlier run.
InitRescan ==
    ProbeIdle /\ WriterRescan /\ PageIdle /\ SeqIdle /\ PoolInit /\ limit = NoLimit

SpecRescan == InitRescan /\ [][Next]_vars

Spec == Init /\ [][Next]_vars

InitInterrupt == ProbeIdle /\ WriterInit /\ PageIdle /\ SeqIdle /\ PoolInit

SpecInterrupt == InitInterrupt /\ [][InterruptNext]_vars

InitProbe == ProbeInit /\ WriterInit /\ PageIdle /\ SeqIdle /\ PoolIdle

SpecProbe == InitProbe /\ [][ProbeNext]_vars

InitProbeLive == ProbeInit /\ WriterInit /\ PageIdle /\ SeqIdle /\ PoolIdle

\* Python runs the thread of the call on: a step that can be taken is taken.
SpecProbeLive == InitProbeLive /\ [][ProbeLiveNext]_vars /\ WF_vars(ProbeLiveNext)

InitWriter == ProbeIdle /\ WriterInit /\ PageIdle /\ SeqIdle /\ PoolIdle

SpecWriter == InitWriter /\ [][WriterNext]_vars

\* Calls of save_multiple_hosts_ports made one after the other on one
\* connection of the caller.
SharedNext ==
    \/ BatchBeginConn(1)
    \/ BatchDeleteStart(1)
    \/ BatchInsert(1)
    \/ SaveCommit(1)
    \/ CallerCommit(1)
    \/ SaveReturn(1)

InitShared == ProbeIdle /\ WriterInit /\ PageIdle /\ SeqIdle /\ PoolIdle

SpecShared == InitShared /\ [][SharedNext]_vars

\* Another writer's CREATE TABLE has put ip_open_ports in the catalog and has
\* not committed yet.
OtherCreating(w) == \E w2 \in Writers \ {w} : provision[w2] = "creating"

\* save_open_ports_to_db, lines 100-106: the call opens its own connection and
\* enters create_ip_open_ports_table.
SchemaSaveBegin(w) ==
    /\ wpc[w] = "idle"
    /\ \A w2 \in Writers : w2 < w => wpc[w2] # "idle"
    /\ calls < MaxCalls
    /\ calls' = calls + 1
    /\ \E p \in Pairs, ports \in ObsLists :
          call' = [call EXCEPT ![w] = [fn |-> "single",
                                       open_ports |-> ports,
                                       identity_key |-> p.identity_key,
                                       ip_address |-> p.ip_address,
                                       hosts_ports_data |-> <<>>,
                                       conn |-> "none"]]
    /\ wpc' = [wpc EXCEPT ![w] = "provisioning"]
    /\ provision' = [provision EXCEPT ![w] = "none"]
    /\ snap' = [snap EXCEPT ![w] = {}]
    /\ deleted' = [deleted EXCEPT ![w] = {}]
    /\ deleted_count' = [deleted_count EXCEPT ![w] = 0]
    /\ inserted' = [inserted EXCEPT ![w] = {}]
    /\ ret' = [ret EXCEPT ![w] = 0]
    /\ alone' = [x \in Writers |->
                    IF x = w THEN \A y \in Writers \ {w} : wpc[y] = "idle"
                    ELSE alone[x] /\ wpc[x] = "idle"]
    /\ UNCHANGED <<store, now, scan_timestamp, host_i, table_exists,
                   constraint_exists>>
    /\ UNCHANGED <<probeVars, poolVars, pageVars, seqVars>>

\* create_ip_open_ports_table, lines 27-39: CREATE TABLE IF NOT EXISTS. With
\* the table in the committed catalog it does nothing; with no table it puts
\* the table in the catalog within its transaction; when another transaction
\* has done so and has not committed, the statement waits for it.
CreateTable(w) ==
    /\ wpc[w] = "provisioning"
    /\ provision[w] = "none"
    /\ provision' = [provision EXCEPT ![w] =
                        IF table_exists THEN "present"
                        ELSE IF OtherCreating(w) THEN "waiting"
                        ELSE "creating"]
    /\ UNCHANGED <<store, now, calls, wpc, call, scan_timestamp, snap, deleted,
                   deleted_count, inserted, ret, alone, host_i, table_exists,
                   constraint_exists>>
    /\ UNCHANGED <<probeVars, poolVars, pageVars, seqVars>>

\* create_ip_open_ports_table, line 40: the commit after CREATE TABLE.
CommitTable(w) ==
    /\ wpc[w] = "provisioning"
    /\ provision[w] \in {"present", "creating"}
    /\ table_exists' = TRUE
    /\ provision' = [provision EXCEPT ![w] = "clean"]
    /\ wpc' = [wpc EXCEPT ![w] = "constraint"]
    /\ UNCHANGED <<store, now, calls, call, scan_timestamp, snap, deleted,
                   deleted_count, inserted, ret, alone, host_i,
                   constraint_exists>>
    /\ UNCHANGED <<probeVars, poolVars, pageVars, seqVars>>

\* create_ip_open_ports_table, lines 39, 81-84, and save_open_ports_to_db,
\* lines 108, 153-156: the transaction the statement waited for has committed
\* the table, and CREATE TABLE raises on the catalog's unique index. The outer
\* except clause rolls back and raises again; the caller's except clause rolls
\* back and returns 0.
CreateTableRaises(w) ==
    /\ wpc[w] = "provisioning"
    /\ provision[w] = "waiting"
    /\ ~OtherCreating(w)
    /\ provision' = [provision EXCEPT ![w] = "raced"]
    /\ Rollback(w)
    /\ UNCHANGED <<store, now, calls, call, scan_timestamp, snap,
                   deleted_count, alone, host_i, table_exists,
                   constraint_exists>>
    /\ UNCHANGED <<probeVars, poolVars, pageVars, seqVars>>

\* create_ip_open_ports_table, lines 42-79: ADD CONSTRAINT raises when the
\* constraint exists, and its except clause rolls back and goes on; so do the
\* except clauses of the hypertable and of the index.
ProvisionRest(w) ==
    /\ wpc[w] = "constraint"
    /\ constraint_exists' = TRUE
    /\ provision' = [provision EXCEPT ![w] =
                        IF constraint_exists THEN "raced" ELSE @]
    /\ wpc' = [wpc EXCEPT ![w] = "entered"]
    /\ UNCHANGED <<store, now, calls, call, scan_timestamp, snap, deleted,
                   deleted_count, inserted, ret, alone, host_i, table_exists>>
    /\ UNCHANGED <<probeVars, poolVars, pageVars, seqVars>>

\* Concurrent calls of save_open_ports_to_db, each on its own connection, with
\* the steps of create_ip_open_ports_table.
SchemaNext ==
    \E w \in Writers :
       \/ SchemaSaveBegin(w)
       \/ CreateTable(w)
       \/ CommitTable(w)
       \/ CreateTableRaises(w)
       \/ ProvisionRest(w)
       \/ SaveEmpty(w)
       \/ SaveDeleteStart(w)
       \/ SaveDelete(w)
       \/ SaveInsert(w)
       \/ SaveCommit(w)
       \/ SaveReturn(w)

\* Calls of save_open_ports_to_db made one after the other, each on its own
\* connection.
SerialNext ==
    \/ SaveBegin(1)
    \/ SaveEmpty(1)
    \/ SaveDeleteStart(1)
    \/ SaveInsert(1)
    \/ SaveCommit(1)
    \/ SaveReturn(1)

InitSerial == ProbeIdle /\ WriterInit /\ PageIdle /\ SeqIdle /\ PoolIdle

SpecSerial == InitSerial /\ [][SerialNext]_vars

InitSchema == ProbeIdle /\ WriterInit /\ PageIdle /\ SeqIdle /\ PoolIdle

SpecSchema == InitSchema /\ [][SchemaNext]_vars

\* The batched insert of a save function, for every number of records.
InitPaging == ProbeIdle /\ WriterInit /\ PageInit /\ SeqIdle /\ PoolIdle

SpecPaging == InitPaging /\ [][PageNext]_vars

-----------------------------------------------------------------------------
(* Claims about scan_ports and get_open_ports_from_scan (SpecProbe) *)

\* The open entries of a report.
OpenEntries(entries) == {entries[k] : k \in {k \in 1..Len(entries) : entries[k].state = "open"}}

\* ports holds exactly the open ports of a report: every open entry whose port
\* number reads as an integer is in ports, with its protocol and service, and
\* every element of ports comes from an open entry of the report.
IsOpenPortsOf(ports, entries) ==
    /\ \A e \in OpenEntries(entries) :
          CanInt(e.portid)
          => \E i \in 1..Len(ports) :
                /\ ports[i].port = IntVal(PyInt(e.portid))
                /\ ports[i].protocol = e.protocol
                /\ ports[i].service = e.service
    /\ \A i \in 1..Len(ports) :
          \E e \in OpenEntries(entries) :
              /\ CanInt(JsonPortId(e))
              /\ ports[i].port = IntVal(PyInt(JsonPortId(e)))
              /\ ports[i].protocol = e.protocol
              /\ ports[i].service = e.service

\* C8: whenever the primary probe failed (it raised or gave no result) and the
\* fallback probe returned its report instead of raising, scan_ports reports
\* success and get_open_ports_from_scan returns exactly the open ports of the
\* fallback report.
C8_FallbackCorrect ==
    (/\ ppc \in {"returned", "extracted"}
     /\ primary_out.kind \in {"raise", "noresult"}
     /\ fallback_out.kind = "dict")
    => /\ scan_result.success
       /\ ppc = "extracted" => IsOpenPortsOf(open_ports, fallback_out.ports)

\* C9: within one scan_ports call the primary probe is invoked exactly once; the
\* fallback probe is invoked at most once, only after the primary failed and
\* never when it succeeded; when both fail the call returns a failure value
\* naming the address, the primary cause and the fallback cause; there is no
\* third probe attempt.
C9_ProbeAttempts ==
    /\ primaryCalls <= 1
    /\ fallbackCalls <= 1
    /\ primaryCalls + fallbackCalls <= 2
    /\ ppc # "start" => primaryCalls = 1
    /\ fallbackCalls = 1 => primaryCalls = 1 /\ primary_out.kind \in {"raise", "noresult"}
    /\ primary_out.kind = "xml" => fallbackCalls = 0
    /\ (ppc \in {"returned", "extracted"} /\ primary_out.kind = "xml")
          => scan_result.success
    /\ (ppc \in {"returned", "extracted"} /\ fallback_out.kind = "raise")
          => /\ ~scan_result.success
             /\ scan_result.error.address = ip_address
             /\ scan_result.error.fallback = fallback_out.cause
             /\ primary_out.kind = "raise"
                   => scan_result.error.primary = primary_out.cause
             /\ primary_out.kind = "noresult"
                   => scan_result.error.primary = "No scan result returned from nmap"

\* Both probes raised and scan_ports has returned its failure value.
C9_Witness ==
    /\ ppc = "returned"
    /\ primaryCalls = 1
    /\ fallbackCalls = 1
    /\ primary_out.kind = "raise"
    /\ fallback_out.kind = "raise"
    /\ ~scan_result.success

-----------------------------------------------------------------------------
(* Claims about save_open_ports_to_db (SpecWriter) *)

\* The rows of the store for the pair of w's call on the day of its timestamp.
DayRowsOf(w) ==
    {r \in store : /\ r.ip_address = call[w].ip_address
                   /\ r.identity_key = call[w].identity_key
                   /\ Day(r.timestamp) = Day(scan_timestamp[w])}

\* The hosts w's call is made for, with their observations.
CallHosts(w) ==
    IF call[w].fn = "batch" THEN call[w].hosts_ports_data
    ELSE <<[ip_address |-> call[w].ip_address,
            identity_key |-> call[w].identity_key,
            open_ports |-> call[w].open_ports]>>

\* The observations of w's call as rows under w's scan timestamp.
CallRows(w) ==
    UNION {{[ip_address |-> h.ip_address, identity_key |-> h.identity_key,
             protocol |-> o.protocol, port |-> PyInt(o.port),
             service |-> o.service, timestamp |-> scan_timestamp[w]]
            : o \in Range(h.open_ports)} : h \in Range(CallHosts(w))}

\* The number of observations w's call is made with.
RECURSIVE CountObs(_)
CountObs(hosts) ==
    IF hosts = <<>> THEN 0 ELSE Len(Head(hosts).open_ports) + CountObs(Tail(hosts))

\* C3: after a call with a non-empty list succeeded, with no other writer
\* active, the rows of the store for that (address, identity) on that day are
\* exactly the observations of the call, all under its one scan timestamp, one
\* row per observation: no duplicate and no residue of an earlier same-day call.
C3_SnapshotExact ==
    \A w \in Writers :
        (/\ call[w].fn = "single"
         /\ wpc[w] = "done" /\ alone[w] /\ Len(call[w].open_ports) > 0)
        => /\ DayRowsOf(w) = CallRows(w)
           /\ \A r \in DayRowsOf(w) : r.timestamp = scan_timestamp[w]
           /\ Cardinality(DayRowsOf(w)) = Len(call[w].open_ports)
           /\ ret[w] = Len(call[w].open_ports)

\* A call that ran alone has replaced the rows of an earlier same-day call.
C3_Witness ==
    \E w \in Writers :
        /\ call[w].fn = "single"
        /\ wpc[w] = "done"
        /\ alone[w]
        /\ Len(call[w].open_ports) > 0
        /\ deleted_count[w] > 0

\* C4: also when two calls for one (address, identity) interleave, once no call
\* is under way the rows of the store for one pair on one calendar day all
\* carry one scan timestamp.
C4_OneSnapshotPerDay ==
    (\A w \in Writers : wpc[w] \in {"idle", "done", "failed"})
    => \A r1, r2 \in store :
          (/\ r1.ip_address = r2.ip_address
           /\ r1.identity_key = r2.identity_key
           /\ Day(r1.timestamp) = Day(r2.timestamp))
          => r1.timestamp = r2.timestamp

\* C5: the same-day delete and the batch insert of one call are one atomic
\* transaction: the store changes only in the commit of a call, which applies
\* the call's delete and all of its rows together; every other step, the
\* failure of the insert and the rollback included, leaves the store as it was.
C5_AtomicWrite ==
    [][store' # store =>
          \E w \in Writers :
              /\ wpc[w] = "commit"
              /\ wpc'[w] = "done"
              /\ store' = (store \ deleted[w]) \cup CallRows(w)
              /\ CallRows(w) \subseteq store'
              /\ Cardinality(CallRows(w)) = CountObs(CallHosts(w))]_vars

\* The insert of a call failed after its DELETE had removed rows, the call has
\* rolled back, and the rows are all in the store.
C5_Witness ==
    \E w \in Writers :
        /\ call[w].fn = "single"
        /\ wpc[w] = "failed"
        /\ alone[w]
        /\ deleted_count[w] > 0
        /\ Cardinality(DayRowsOf(w)) = deleted_count[w]
        /\ \A r \in DayRowsOf(w) : r.timestamp # scan_timestamp[w]

\* C6: under any interleaving, a row leaves the store only in the commit of a
\* call (of save_open_ports_to_db or of save_multiple_hosts_ports) made for the
\* row's own (address, identity) whose scan timestamp is on the row's calendar
\* day; rows of other pairs and of other days are never removed, and no row
\* is modified.
C6_Frame ==
    [][\A r \in store \ store' :
          \E w \in Writers :
              /\ wpc[w] = "commit"
              /\ wpc'[w] = "done"
              /\ \E h \in Range(CallHosts(w)) :
                    /\ r.ip_address = h.ip_address
                    /\ r.identity_key = h.identity_key
              /\ Day(r.timestamp) = Day(scan_timestamp[w])]_vars

\* A call has committed after deleting rows, and the store still holds a row
\* of another pair of the same address and day, or a row of the call's pair
\* of another day.
C6_Witness ==
    \E w \in Writers :
        /\ call[w].fn = "single"
        /\ wpc[w] = "done"
        /\ deleted_count[w] > 0
        /\ \/ \E r \in store : /\ r.ip_address = call[w].ip_address
                               /\ r.identity_key # call[w].identity_key
                               /\ Day(r.timestamp) = Day(scan_timestamp[w])
           \/ \E r \in store : /\ r.ip_address = call[w].ip_address
                               /\ r.identity_key = call[w].identity_key
                               /\ Day(r.timestamp) # Day(scan_timestamp[w])

\* C7: a call with an empty list returns 0 without an error, starts no DELETE
\* and no INSERT, and leaves every stored row unchanged.
C7_EmptyNoEffect ==
    /\ [](\A w \in Writers :
             (call[w].fn = "single" /\ Len(call[w].open_ports) = 0)
             => /\ wpc[w] \in {"entered", "done"}
                /\ snap[w] = {} /\ deleted[w] = {} /\ inserted[w] = {}
                /\ deleted_count[w] = 0
                /\ ret[w] = 0)
    /\ [][\A w \in Writers :
             (/\ call[w].fn = "single" /\ wpc[w] = "entered"
              /\ Len(call[w].open_ports) = 0 /\ wpc'[w] # wpc[w])
             => wpc'[w] = "done" /\ store' = store]_vars

\* An empty call has returned 0 while the store holds rows of its pair.
C7_Witness ==
    \E w \in Writers :
        /\ call[w].fn = "single"
        /\ wpc[w] = "done"
        /\ Len(call[w].open_ports) = 0
        /\ ret[w] = 0
        /\ \E r \in store : /\ r.ip_address = call[w].ip_address
                            /\ r.identity_key = call[w].identity_key
                            /\ Day(r.timestamp) = Day(now)

-----------------------------------------------------------------------------
(* Claims about scan_all_ips_multithreaded (Spec) *)

\* The entries of a list of outcomes that are for the target with identity id.
OutcomesFor(outcomes, id) ==
    Cardinality({k \in 1..Len(outcomes) : outcomes[k].identity_key = id})

\* C1: once the pool has drained, completed_scans and failed_scans together
\* hold as many outcomes as there are targets after the truncation to limit,
\* and every target has exactly one outcome: in one of the two lists, once.
C1_OneOutcomePerTarget ==
    phase \in {"Summarizing", "Done"}
    => /\ Len(completed_scans) + Len(failed_scans) = Len(ip_data_list)
       /\ limit \notin {NoLimit, 0} => Len(ip_data_list) <= limit
       /\ \A i \in 1..Len(ip_data_list) :
             OutcomesFor(completed_scans, ip_data_list[i].identity_key)
                + OutcomesFor(failed_scans, ip_data_list[i].identity_key) = 1

\* A run has ended with one target completed and another failed.
C1_Witness ==
    /\ phase = "Done"
    /\ Len(ip_data_list) = 2
    /\ Len(completed_scans) = 1
    /\ Len(failed_scans) = 1

\* C2: at every instant the targets whose scan_single_ip_threaded call has
\* started and not returned are at most max_workers; a target is handed to a
\* worker once, to one thread of the pool, and no thread runs two targets at
\* a time; when the pool has drained every target was handed out once.
C2_BoundedInFlight ==
    /\ Cardinality(InFlight) <= max_workers
    /\ \A i \in Tasks :
          /\ dispatches[i] <= 1
          /\ stage[i] \in {"scan", "save", "finished"}
                => dispatches[i] = 1 /\ thread[i] \in 1..max_workers
          /\ stage[i] \in {"none", "queued"} => dispatches[i] = 0
    /\ \A i, j \in InFlight : i # j => thread[i] # thread[j]
    /\ phase \in {"Summarizing", "Done"}
          => \A i \in 1..Len(ip_data_list) : dispatches[i] = 1

\* Every worker of the pool is busy and a submitted target waits.
C2_Witness ==
    /\ phase = "Scanning"
    /\ Cardinality(InFlight) = max_workers
    /\ queue # <<>>

\* C10: a target whose handling failed has a failed outcome: when the save of
\* a target with open ports stored nothing, the result of the target says
\* scan_success False.
C10_FailureIsFailedOutcome ==
    \A i \in Tasks :
        (/\ stage[i] = "finished"
         /\ Len(task_ports[i]) > 0
         /\ result[i].ports_saved = 0)
        => ~result[i].scan_success


-----------------------------------------------------------------------------
(* Claims about the summary and the limit of a run (Spec) *)

\* The probe of task i succeeded: scan_ports reported success.
ProbeSucceeded(i) ==
    /\ stage[i] \in {"save", "finished"}
    /\ result[i].scan_success \/ Len(task_ports[i]) > 0

RECURSIVE SumSaved(_)
\* Sum of the writer's return counts over a set of tasks.
SumSaved(S) ==
    IF S = {} THEN 0
    ELSE LET i == CHOOSE x \in S : TRUE
         IN  result[i].ports_saved + SumSaved(S \ {i})

\* C11: at the end of every completed run the summary gives scanned = number of
\* targets = succeeded + failed, succeeded = number of targets whose probe
\* succeeded, failed = number of the others, and saved = sum of the writer's
\* return counts over the succeeded targets. A count the one-line summary
\* does not print is not held against it.
C11_SummaryCounts ==
    phase = "Done"
    => LET targets == 1..Len(ip_data_list)
           ok == {i \in targets : ProbeSucceeded(i)}
       IN  /\ summary.emitted
           /\ summary.scanned = IntVal(Len(ip_data_list))
           /\ summary.succeeded \in {NoneVal, IntVal(Cardinality(ok))}
           /\ summary.failed
                 \in {NoneVal, IntVal(Len(ip_data_list) - Cardinality(ok))}
           /\ summary.saved = IntVal(SumSaved(ok))

\* C12: when a limit N >= 0 is passed (N = 0 included) and L targets were
\* retrieved, the list is cut to its first min(N, L) targets before any scan
\* starts, no other target is ever handed to a worker, and at the end of the
\* run each of the first min(N, L) targets has been scanned.
C12_LimitTruncates ==
    limit # NoLimit
    => LET n == IF limit < retrieved THEN limit ELSE retrieved
       IN  /\ \A i \in Tasks : dispatches[i] > 0 => i <= n
           /\ phase \in {"Scanning", "Summarizing", "Done"}
                 => Len(ip_data_list) = n
           /\ phase = "Done" => \A i \in 1..n : dispatches[i] = 1

\* C13: a target whose snapshot write failed (it had open ports to save and
\* nothing was saved) is filed with zero ports saved among the failed outcomes
\* of the run and not among the succeeded ones, and its outcome carries an
\* error, which a write of zero rows does not.
C13_SaveFailureReported ==
    \A i \in yielded :
        (Len(task_ports[i]) > 0 /\ result[i].ports_saved = 0)
        => /\ OutcomesFor(failed_scans, ip_data_list[i].identity_key) = 1
           /\ OutcomesFor(completed_scans, ip_data_list[i].identity_key) = 0
           /\ result[i].error # NoneVal

-----------------------------------------------------------------------------
(* Claims about failures of the save functions (SpecWriter) *)

\* The rows an INSERT of call w would collide with, on the unique key.
Collides(w, recs) ==
    UniqueViolation(store \ deleted[w], recs)

\* C14: an INSERT of save_open_ports_to_db whose records collide on (address,
\* port, protocol, timestamp) with a stored row, or with each other, does not
\* fail: the call goes on to its commit with every record of the batch written.
C14_CollisionUpdates ==
    [][\A w \in Writers :
          (/\ call[w].fn = "single"
           /\ wpc[w] = "inserting"
           /\ wpc'[w] # "inserting"
           /\ ~RecordsRaise(call[w].open_ports)
           /\ Collides(w, Records(call[w].open_ports, call[w].identity_key,
                                  call[w].ip_address, scan_timestamp[w])))
          => /\ wpc'[w] = "commit"
             /\ inserted'[w] =
                   Range(Records(call[w].open_ports, call[w].identity_key,
                                 call[w].ip_address, scan_timestamp[w]))]_vars

\* The records of host k of the batch call w.
HostRecords(w, k) ==
    LET h == call[w].hosts_ports_data[k]
    IN  Records(h.open_ports, h.identity_key, h.ip_address, scan_timestamp[w])

\* Nothing is wrong with the rows of host k of the batch call w: its ports read
\* as integers and its records collide neither with a row the transaction
\* sees, nor with each other, nor with the records of an earlier host.
HostClean(w, k) ==
    /\ ~RecordsRaise(call[w].hosts_ports_data[k].open_ports)
    /\ ~UniqueViolation(store \ deleted[w], HostRecords(w, k))
    /\ \A j \in 1..(k - 1) :
          \/ RecordsRaise(call[w].hosts_ports_data[j].open_ports)
          \/ ~UniqueViolation(Range(HostRecords(w, j)), HostRecords(w, k))

\* C15: when the INSERT step of save_multiple_hosts_ports meets a failure in
\* the rows of one host, the rows of every host of the batch that has nothing
\* wrong are still written and the call goes on to commit them.
C15_BatchIsolatesFailures ==
    [][\A w \in Writers :
          (/\ call[w].fn = "batch"
           /\ wpc[w] = "inserting"
           /\ wpc'[w] # "inserting"
           /\ \E k \in 1..Len(call[w].hosts_ports_data) : ~HostClean(w, k))
          => \A k \in 1..Len(call[w].hosts_ports_data) :
                (HostClean(w, k) /\ Len(HostRecords(w, k)) > 0)
                => /\ wpc'[w] = "commit"
                   /\ Range(HostRecords(w, k)) \subseteq inserted'[w]]_vars

\* The rows of the store for the (address, identity) pair of host h.
HostRows(rows, h) ==
    {r \in rows : r.ip_address = h.ip_address /\ r.identity_key = h.identity_key}

\* Every host of the batch call w has an empty list.
AllEmpty(w) ==
    \A k \in 1..Len(call[w].hosts_ports_data) :
        call[w].hosts_ports_data[k].open_ports = <<>>

\* The step is one on the connection of call w: a step of the call itself or
\* a commit on the connection after it.
OnConnection(w) == wpc'[w] # wpc[w] \/ deleted'[w] # deleted[w]

\* C16: while and after save_multiple_hosts_ports runs, no step on its
\* connection (a step of the call, its commit, a later commit of the caller)
\* removes or adds a row of a host of the batch whose list is empty; a call
\* whose lists are all empty returns 0 and no such step changes the store.
C16_EmptyHostsUntouched ==
    [][\A w \in Writers :
          (call[w].fn = "batch" /\ OnConnection(w))
          => /\ \A k \in 1..Len(call[w].hosts_ports_data) :
                   call[w].hosts_ports_data[k].open_ports = <<>>
                   => HostRows(store', call[w].hosts_ports_data[k])
                         = HostRows(store, call[w].hosts_ports_data[k])
             /\ AllEmpty(w)
                   => /\ store' = store
                      /\ wpc'[w] \in Ended => ret'[w] = 0]_vars

-----------------------------------------------------------------------------
(* Claims about an interrupted run (SpecInterrupt) *)

\* C17: once the run has been interrupted, no target whose scan has not
\* started is handed to a worker any more, and a scan that is in flight is
\* never cancelled: it stays in flight until it ends with its result.
C17_InterruptStopsDispatch ==
    [][phase = "ShuttingDown"
          => \A i \in Tasks :
                /\ stage[i] = "queued" => stage'[i] = "queued"
                /\ stage[i] = "scan" => stage'[i] \in {"scan", "save", "finished"}
                /\ stage[i] = "save" => stage'[i] \in {"save", "finished"}]_vars

\* C18: an interrupted run that has ended has emitted a summary whose counts
\* are those of the outcomes drained before the interrupt.
C18_InterruptKeepsOutcomes ==
    phase = "Interrupted"
    => /\ summary.emitted
       /\ summary.succeeded \in {NoneVal, IntVal(Len(completed_scans))}
       /\ summary.failed \in {NoneVal, IntVal(Len(failed_scans))}
       /\ summary.saved = IntVal(total_ports_saved)

-----------------------------------------------------------------------------
(* Claims about the termination of a scan (SpecProbeLive) *)

\* C19: every started scan_ports call eventually returns an outcome, its
\* probe calls being cut off by their timeouts.
C19_ScanReturns == <>(ppc \in {"returned", "extracted"})

-----------------------------------------------------------------------------
(* Claims about the probing handles of the workers (Spec) *)

\* C20: no two scans that are running use the same handle; the handle of a
\* running scan is the one its own worker thread made; a thread makes its
\* handle on its first scan, not before, and makes at most one.
C20_HandlePerThread ==
    /\ \A i, j \in Tasks :
          (i # j /\ stage[i] = "scan" /\ stage[j] = "scan") => nm[i] # nm[j]
    /\ \A i \in Tasks :
          stage[i] = "scan"
          => /\ nm[i] # NoHandle
             /\ nm[i].owner = thread[i]
             /\ nm[i] = thread_local[thread[i]]
    /\ \A t \in Threads :
          /\ handles_created[t] <= 1
          /\ handles_created[t] = 0 <=> \A i \in Tasks : thread[i] # t
          /\ handles_created[t] = 0 <=> thread_local[t] = NoHandle

\* Two scans run at once, each with a handle.
C20_Witness ==
    \E i, j \in Tasks :
        /\ i # j
        /\ stage[i] = "scan"
        /\ stage[j] = "scan"
        /\ nm[i] # NoHandle
        /\ nm[j] # NoHandle

-----------------------------------------------------------------------------
(* Claims about target retrieval and the phases of a run (Spec) *)

\* C21: a run whose retrieval gave no target goes from FetchingTargets to
\* Summarizing and Done, where it has emitted a summary with zero counts, and
\* hands no target to a worker.
C21_NoTargetsSummary ==
    (retrieved = 0 /\ phase \notin {"Idle", "FetchingTargets"})
    => /\ phase \in {"Summarizing", "Done"}
       /\ \A i \in Tasks : dispatches[i] = 0
       /\ phase = "Done"
             => /\ summary.emitted
                /\ summary.scanned = IntVal(0)
                /\ summary.failed \in {NoneVal, IntVal(0)}
                /\ summary.saved = IntVal(0)

\* C22: when the target lookup failed, the run scans no target and does not
\* end the way a run ends whose lookup succeeded with zero targets: it does
\* not go on to the normal return.
C22_LookupFailureIsFatal ==
    lookup = "failed"
    => /\ \A i \in Tasks : dispatches[i] = 0
       /\ phase # "Returned"

-----------------------------------------------------------------------------
(* Claims about the content of the port list (SpecProbe) *)

\* The probe that gave scan_ports its report said nothing about the address:
\* the primary report has no port element, or the fallback dict has no entry
\* for the address or an entry without ports.
NoDataForAddress ==
    \/ primary_out.kind = "xml" /\ primary_out.ports = <<>>
    \/ /\ primary_out.kind \in {"raise", "noresult"}
       /\ fallback_out.kind = "dict"
       /\ ~(fallback_out.has_addr /\ fallback_out.has_ports)

\* C23: when the probe response holds no data for the address, on the primary
\* path or on the fallback path, scan_ports reports success and
\* get_open_ports_from_scan returns the empty list.
C23_NoDataIsEmptySuccess ==
    (ppc \in {"returned", "extracted"} /\ NoDataForAddress)
    => /\ scan_result.success
       /\ scan_result.error = NoneVal
       /\ ppc = "extracted" => open_ports = <<>>

\* The port entries of the report scan_ports returned with success.
ReportEntries ==
    IF primary_out.kind = "xml" THEN primary_out.ports ELSE fallback_out.ports

\* C24: an entry whose port number int() rejects does not cost the report its
\* other entries: every open entry of the report with a well-formed port
\* number, before or after the malformed one, is in the list
\* get_open_ports_from_scan returns.
C24_MalformedSkipped ==
    (ppc = "extracted" /\ scan_result.success)
    => \A k \in 1..Len(ReportEntries) :
          (ReportEntries[k].state = "open" /\ CanInt(ReportEntries[k].portid))
          => \E i \in 1..Len(open_ports) :
                /\ open_ports[i].port = IntVal(PyInt(ReportEntries[k].portid))
                /\ open_ports[i].protocol = ReportEntries[k].protocol

\* C25: every element of the list get_open_ports_from_scan returns has an
\* integer port number in 0..65535, whatever the report holds.
C25_PortInRange ==
    ppc = "extracted"
    => \A i \in 1..Len(open_ports) :
          /\ open_ports[i].port.kind = "int"
          /\ open_ports[i].port.n \in 0..65535

-----------------------------------------------------------------------------
(***************************************************************************)
(* Claims about schema provisioning (SpecSchema)                           *)
(***************************************************************************)

\* C26: a call of save_open_ports_to_db whose provisioning met an object that
\* already existed, or that a concurrent writer was creating, is not aborted
\* by it: it goes on to its delete and insert.
C26_ExistenceRaceTolerated ==
    \A w \in Writers : provision[w] = "raced" => wpc[w] # "failed"

-----------------------------------------------------------------------------
(***************************************************************************)
(* Claims about the value the save functions return (SpecPaging)           *)
(***************************************************************************)

\* C27: a save function that succeeds returns the number of rows it has
\* persisted, for a batch of any size, larger than one page of the batched
\* insert included.
C27_ReturnsRowsPersisted ==
    xpc = "returned" => rows_affected = persisted

-----------------------------------------------------------------------------
(***************************************************************************)
(* Claims about the order of a run's phases and its aggregation (Spec)     *)
(***************************************************************************)

\* The phases of a run in their order; the return at lines 104-108 ends a run
\* as Done does.
PhaseRank(p) ==
    CASE p = "Idle" -> 0
      [] p = "FetchingTargets" -> 1
      [] p = "Scanning" -> 2
      [] p = "Summarizing" -> 3
      [] OTHER -> 4

\* Every target of the list has its outcome with the coordinator, no task
\* waits for a worker and no worker runs one.
AllOutcomesIn ==
    /\ yielded = 1..Len(ip_data_list)
    /\ \A i \in 1..Len(ip_data_list) : stage[i] = "finished"
    /\ queue = <<>>
    /\ InFlight = {}

\* C28: a run goes through Idle, FetchingTargets, Scanning, Summarizing, Done
\* in this order and never back; nothing is submitted before the targets are
\* retrieved and truncated, the list does not change once scans are
\* submitted, and the summary is computed only in Summarizing, when every
\* submitted target has its outcome and no worker runs.
C28_PhaseOrder ==
    [][/\ PhaseRank(phase) <= PhaseRank(phase')
       /\ phase' # phase
          => <<phase, phase'>> \in {<<"Idle", "FetchingTargets">>,
                                    <<"FetchingTargets", "Scanning">>,
                                    <<"FetchingTargets", "Returned">>,
                                    <<"Scanning", "Summarizing">>,
                                    <<"Summarizing", "Done">>}
       /\ PhaseRank(phase') < 2
          => /\ queue' = <<>>
             /\ \A i \in Tasks : stage'[i] = "none" /\ dispatches'[i] = 0
       /\ PhaseRank(phase) >= 2 => ip_data_list' = ip_data_list
       /\ phase' \in {"Summarizing", "Done"} => AllOutcomesIn'
       /\ summary' # summary => phase = "Summarizing" /\ phase' = "Done"
       /\ summary'.emitted => phase' = "Done"]_vars

\* A run of two targets, truncated to one by its limit or not, has ended with
\* its summary after scans were in flight.
C28_Witness ==
    /\ phase = "Done"
    /\ summary.emitted
    /\ retrieved = 2
    /\ \A i \in 1..Len(ip_data_list) : dispatches[i] = 1

\* completed_scans, failed_scans and total_ports_saved.
aggregation == <<completed_scans, failed_scans, total_ports_saved>>

\* The coordinator files the outcome of task i: one append to the list the
\* outcome belongs to, and the counter grows by the outcome's ports_saved.
Filed(i) ==
    /\ i \notin yielded
    /\ yielded' = yielded \cup {i}
    /\ stage[i] = "finished"
    /\ IF result[i].scan_success
       THEN /\ completed_scans' = Append(completed_scans, result[i])
            /\ total_ports_saved' = total_ports_saved + result[i].ports_saved
            /\ failed_scans' = failed_scans
       ELSE /\ failed_scans' = Append(failed_scans, result[i])
            /\ completed_scans' = completed_scans
            /\ total_ports_saved' = total_ports_saved

\* C29: completed_scans, failed_scans and total_ports_saved change only when
\* the coordinator files one outcome that as_completed yields, and then by
\* that outcome alone; no step of a worker (taking a task, scanning, saving)
\* changes them. So at any moment the two lists hold one outcome per yielded
\* future and the counter is the sum of ports_saved over the yielded ones.
C29_CoordinatorOwnsAggregation ==
    [][/\ aggregation' # aggregation
          => /\ phase = "Scanning"
             /\ stage' = stage /\ thread' = thread /\ queue' = queue
             /\ \E i \in Tasks : Filed(i)
       /\ (stage' # stage \/ thread' # thread \/ queue' # queue)
          => aggregation' = aggregation
       /\ Len(completed_scans') + Len(failed_scans') = Cardinality(yielded')
       /\ total_ports_saved' = SumSaved({i \in yielded' : result'[i].scan_success})]_vars

\* The coordinator has filed a save of one worker while another worker is
\* running its task.
C29_Witness ==
    /\ phase = "Scanning"
    /\ InFlight # {}
    /\ Len(completed_scans) = 1
    /\ total_ports_saved > 0

-----------------------------------------------------------------------------
(***************************************************************************)
(* Claims about the order of the port list (SpecProbe)                     *)
(***************************************************************************)

\* The open entries of a report whose port number reads as an integer, in the
\* report's order, as elements of a port list.
RECURSIVE OpenWellFormed(_)
OpenWellFormed(entries) ==
    IF entries = <<>> THEN <<>>
    ELSE LET e == Head(entries) IN
         IF e.state = "open" /\ CanInt(e.portid)
         THEN <<[port |-> IntVal(PyInt(e.portid)), protocol |-> e.protocol,
                 service |-> e.service]>> \o OpenWellFormed(Tail(entries))
         ELSE OpenWellFormed(Tail(entries))

\* a is b with some elements left out.
RECURSIVE IsSubSeq(_, _)
IsSubSeq(a, b) ==
    IF a = <<>> THEN TRUE
    ELSE IF b = <<>> THEN FALSE
    ELSE IF Head(a) = Head(b) THEN IsSubSeq(Tail(a), Tail(b))
    ELSE IsSubSeq(a, Tail(b))

\* C30: the list get_open_ports_from_scan returns for a report is the
\* report's open entries in the report's order: every element comes from an
\* open entry, there are no more elements than open entries, and the open
\* entries with a well-formed port number are all there, in their order.
C30_OpenInOrder ==
    (ppc = "extracted" /\ scan_result.success)
    => /\ IsSubSeq(OpenWellFormed(ReportEntries), open_ports)
       /\ Len(open_ports) <= Cardinality({k \in 1..Len(ReportEntries) :
                                             ReportEntries[k].state = "open"})
       /\ \A i \in 1..Len(open_ports) :
             \E k \in 1..Len(ReportEntries) :
                /\ ReportEntries[k].state = "open"
                /\ open_ports[i].port = IntVal(PyInt(JsonPortId(ReportEntries[k])))
                /\ open_ports[i].protocol = ReportEntries[k].protocol

-----------------------------------------------------------------------------
(***************************************************************************)
(* Claims about the sequential run (SpecSeq)                               *)
(***************************************************************************)

\* C31: a target whose probe raised is a failed outcome: the result
\* scan_and_save_single_ip returns for it is not the one of a scan that
\* succeeded and found no open port, the final summary does not count it as
\* scanned, and port_scanner's result for it does not say success.
C31_ProbeFailureIsFailed ==
    /\ \A k \in 1..Len(seq_results) :
          seq_probe[k] = "raise" => seq_results[k] # SeqResult(seq_list[k], <<>>, 0)
    /\ seq_summary.emitted
       => seq_summary.scanned
             = Cardinality({k \in 1..Len(seq_results) : seq_probe[k] # "raise"})
    /\ ps_probe = "raise" => ~ps_result.success

\* C32: no failure of a save, a failing rollback on a broken connection
\* included, ends the sequential run early: once the run has left its loop
\* every target of the list has been handled and the summary is printed.
C32_SaveFailureContained ==
    spc \in {"Done", "Aborted"}
    => /\ seq_i = Len(seq_list)
       /\ Len(seq_results) = Len(seq_list)
       /\ seq_summary.emitted

\* The sequential run is over: it returned, or an exception left it.
SeqEnded == spc \in {"Returned", "Raised", "Done", "Aborted"}

-----------------------------------------------------------------------------
(***************************************************************************)
(* Claims about calls made one after the other (SpecSerial)                *)
(***************************************************************************)

\* The calendar days of the clock.
Days == {Day(t) : t \in 0..MaxClock}

\* The rows of a pair on a day.
PairDayRows(rows, p, d) ==
    {r \in rows : /\ r.ip_address = p.ip_address
                  /\ r.identity_key = p.identity_key
                  /\ Day(r.timestamp) = d}

\* C34: with calls of save_open_ports_to_db made one after the other, the
\* rows of a pair on a day change only when a call for that pair with a
\* non-empty list commits on that day, and they are then exactly the
\* observations of that call; a call with an empty list and a call that
\* fails change no row. So the rows of a pair on a day are at any time the
\* list of the last call that succeeded with a non-empty list.
C34_LatestSnapshotStays ==
    [][LET commits == wpc[1] = "commit" /\ wpc'[1] = "done"
           p == [ip_address |-> call[1].ip_address,
                 identity_key |-> call[1].identity_key]
           d == Day(scan_timestamp[1])
           recs == Range(Records(call[1].open_ports, call[1].identity_key,
                                 call[1].ip_address, scan_timestamp[1]))
       IN  /\ commits => /\ Len(call[1].open_ports) > 0
                         /\ PairDayRows(store', p, d) = recs
           /\ \A q \in Pairs, e \in Days :
                 PairDayRows(store', q, e) # PairDayRows(store, q, e)
                 => commits /\ q = p /\ e = d]_vars

\* A call with an empty list has ended and the rows an earlier call of the
\* same day saved for its pair are in the store.
C34_Witness ==
    /\ wpc[1] = "done"
    /\ call[1].fn = "single"
    /\ call[1].open_ports = <<>>
    /\ calls >= 2
    /\ PairDayRows(store, [ip_address |-> call[1].ip_address,
                           identity_key |-> call[1].identity_key],
                   Day(now)) # {}

-----------------------------------------------------------------------------
(***************************************************************************)
(* Claims about a run over the rows of an earlier run (SpecRescan)         *)
(***************************************************************************)

\* The rows of target i.
TargetRows(rows, i) ==
    {r \in rows : /\ r.ip_address = ip_data_list[i].ip_address
                  /\ r.identity_key = ip_data_list[i].identity_key}

\* The scan of task i failed on the primary and on the fallback probe.
ProbeFailed(i) ==
    /\ stage[i] = "finished"
    /\ ~result[i].scan_success
    /\ task_ports[i] = <<>>

\* C35: in the thread-pool run, the step in which the probe of a target
\* fails on both strategies leaves the store and its clock as they are, a
\* task goes on to the save only with open ports of a probe that succeeded,
\* and the store changes only in the save of such a task; so once a target's
\* probe has failed, its rows are the rows the earlier run left.
C35_FailedProbeNoStoreOp ==
    [][\A i \in Tasks :
          /\ (stage[i] = "scan" /\ stage'[i] = "finished"
                  /\ ~result'[i].scan_success)
             => store' = store /\ now' = now
          /\ (stage[i] # "save" /\ stage'[i] = "save")
             => Len(task_ports'[i]) > 0
          /\ ProbeFailed(i)'
             => TargetRows(store', i) = TargetRows(EarlierRows, i)
          /\ store' # store
             => \E j \in Tasks : /\ stage[j] = "save"
                                 /\ stage'[j] = "finished"
                                 /\ result'[j].scan_success]_vars

\* The probe of one target has failed and its earlier row is in the store,
\* while the save of another target has replaced that target's rows.
C35_Witness ==
    \E i, j \in Tasks :
        /\ ProbeFailed(i)
        /\ TargetRows(store, i) # {}
        /\ stage[j] = "finished"
        /\ result[j].ports_saved > 0
        /\ TargetRows(store, j) # TargetRows(EarlierRows, j)

-----------------------------------------------------------------------------
(***************************************************************************)
(* Claims about the connections of the workers (SpecConn)                  *)
(***************************************************************************)

\* The tasks whose save holds an open connection.
OpenConns == {i \in Tasks : db_conn[i].state = "open"}

\* C36: in the thread-pool run a connection is open only while the run is in
\* Scanning, in the save of the task whose worker thread opened it; two saves
\* never hold the same connection nor run on the same thread; and at most
\* max_workers connections are open at once.
C36_PrivateConnections ==
    /\ \A i \in OpenConns : /\ phase = "Scanning"
                            /\ stage[i] = "save"
                            /\ db_conn[i].owner = thread[i]
    /\ \A i, j \in OpenConns :
          i # j => /\ db_conn[i].id # db_conn[j].id
                   /\ db_conn[i].owner # db_conn[j].owner
    /\ Cardinality({db_conn[i].id : i \in OpenConns}) <= max_workers
    /\ Cardinality(OpenConns) <= max_workers

\* Two workers are in their saves at once, each with its open connection,
\* and the pool has no more workers.
C36_Witness ==
    /\ phase = "Scanning"
    /\ Cardinality(OpenConns) = 2
    /\ max_workers = 2

=============================================================================
